---------------------------- MODULE Spec2Model ----------------------------
(***************************************************************************)
(* A model of the PubMed data server (src/src/index.js): the rate limiter, *)
(* the memory cache, the per-paper file cache, the metadata fetcher, the   *)
(* open-access resolver and the full-text (PDF) downloads.  Times are      *)
(* Date.now() values in units of MsPerUnit ms.  Each subsystem has its own *)
(* specification over the shared state.                                    *)
(***************************************************************************)
EXTENDS Integers, Sequences, FiniteSets, TLC

VARIABLES
    now,              \* Date.now()
    ticks,            \* number of clock advances so far (bounds the run)
    lastRequestTime,  \* this.lastRequestTime
    rlPc,             \* per caller of enforceRateLimit: "idle" | "waiting" | "done"
    rlWake,           \* per caller: the time its setTimeout is due
    rlStart,          \* per caller: Date.now() when its call started
    rlDispatch,       \* per caller: the lastRequestTime it recorded on return
    cache,            \* this.cache: a Map, kept as the sequence of its entries in insertion order
    cacheStats,       \* this.cacheStats
    evictedLog,       \* the oldestKey of the latest "[Cache] Evicted oldest entry" line
    cacheOp,          \* the latest memory-cache call and what it returned
    born,             \* history: per key, the serial number of the insertion that put it in the Map (0: absent)
    bornNext,         \* history: next serial number
    written,          \* history: per key, the latest setCache(k, v) as [data, timestamp]
    lost,             \* history: per key, whether its entry was removed since that setCache
    ops,              \* number of memory-cache calls so far (bounds the run)
    files,            \* cache/papers/<pmid>.json per pmid: Null (no file) or [timestamp, data]
    indexPapers,      \* the pmids listed under "papers" in cache/index.json
    proc,             \* per tool call in progress: where it stands and what it holds
    runs,             \* number of tool calls started so far (bounds the run)
    stored,           \* history: per pmid, the latest setPaperToFileCache as [data, timestamp]
    fault,            \* what is wrong with the disk of cache/: "none" | "disk_full" | "index_corrupt"
    cleanResp,        \* the count the latest cleanExpiredPaperCache returned, and how many calls there were
    oa,               \* the detectOpenAccess call: where it stands, its article, oaInfo, the probes sent
    pdf,              \* cache/fulltext/<pmid>.pdf per pmid: Null (no file) or [size, mtime]
    ledger,           \* fulltext_papers of cache/fulltext/index.json: per pmid Null or its record
    dl,               \* per full-text tool call in progress: where it stands and what it holds
    dlRuns,           \* number of full-text tool calls started so far (bounds the run)
    batchRuns,        \* number of those that are batch downloads (bounds the run)
    FULLTEXT_MODE,    \* process.env.FULLTEXT_MODE in lower case, read once at start
    statusResp,       \* what the latest handleFulltextStatus call returned (Null: none yet)
    endnoteFiles,     \* cache/endnote/<pmid>.ris and .bib per pmid: Null or [mtime, writes (history: times written)]
    totalPapers,      \* stats.totalPapers of cache/index.json
    fulltextStats,    \* stats of cache/fulltext/index.json: [totalPDFs, totalSize]
    endnoteIndex      \* exported_papers of cache/endnote/index.json: per pmid Null or its record

timeVars == <<now, ticks>>
rateVars == <<lastRequestTime, rlPc, rlWake, rlStart, rlDispatch>>
cacheVars == <<cache, cacheStats, evictedLog, cacheOp, born, bornNext, written, lost, ops>>
paperVars == <<fault, cleanResp>>
fetchVars == <<files, indexPapers, totalPapers, proc, runs, stored, paperVars>>
oaVars == <<oa>>
dlVars == <<pdf, ledger, fulltextStats, dl, dlRuns, batchRuns, FULLTEXT_MODE, statusResp>>
exportVars == <<endnoteFiles, endnoteIndex>>
vars == <<timeVars, rateVars, cacheVars, fetchVars, oaVars, dlVars, exportVars>>

-----------------------------------------------------------------------------
(* Program constants and the bounds of the model *)

(* Bounds of the model *)

\* Milliseconds per unit of model time: TLC's integers are 32-bit and 30 days
\* in milliseconds is not, so the clock counts units of MsPerUnit ms (a unit
\* small enough for the rate limiter's 334 ms, large enough for the 90 days
\* of the PDF store plus the running time).
MsPerUnit == 8

RATE_LIMIT_DELAY == 334 \div MsPerUnit
cacheTimeout == 5 * 60 * (1000 \div MsPerUnit)
maxCacheSize == 100
PAPER_CACHE_EXPIRY == 30 * 24 * 60 * 60 * (1000 \div MsPerUnit)

BootTime == 1000
MaxTicks == 2
NumCallers == 2
MaxOps == 3
NumValues == 2
NumPmids == 2
NumProcs == 2
MaxDlRuns == 2
MaxBatchRuns == 1
MaxRuns == 2

Null == [null |-> TRUE]

-----------------------------------------------------------------------------
(* The rate limiter: enforceRateLimit *)

Callers == 1..NumCallers

\* Mutant of RateLimitWait: the time already elapsed is added to the delay.
RateLimitWaitAdded(t, last) ==
    IF t - last < RATE_LIMIT_DELAY THEN RATE_LIMIT_DELAY + (t - last) ELSE 0

\* Mutant of RateLimitWait: enforceRateLimit is not called.
RateLimitWaitNone(t, last) == 0

\* The delay enforceRateLimit hands to setTimeout (0: no wait).
RateLimitWait(t, last) ==
    IF t - last < RATE_LIMIT_DELAY THEN RATE_LIMIT_DELAY - (t - last) ELSE 0

\* A call of enforceRateLimit up to its await, or to its end when it does not wait.
enforceRateLimit(c) ==
    /\ rlPc[c] \in {"idle", "done"}
    /\ rlStart' = [rlStart EXCEPT ![c] = now]
    /\ IF RateLimitWait(now, lastRequestTime) > 0
         THEN /\ rlPc' = [rlPc EXCEPT ![c] = "waiting"]
              /\ rlWake' = [rlWake EXCEPT ![c] = now + RateLimitWait(now, lastRequestTime)]
              /\ UNCHANGED <<lastRequestTime, rlDispatch>>
         ELSE /\ rlPc' = [rlPc EXCEPT ![c] = "done"]
              /\ lastRequestTime' = now
              /\ rlDispatch' = [rlDispatch EXCEPT ![c] = now]
              /\ UNCHANGED rlWake
    /\ UNCHANGED <<timeVars, cacheVars, fetchVars, oaVars, exportVars, dlVars>>

\* The timer of a suspended call fires and the call records its dispatch time.
enforceRateLimitResume(c) ==
    /\ rlPc[c] = "waiting"
    /\ now >= rlWake[c]
    /\ rlPc' = [rlPc EXCEPT ![c] = "done"]
    /\ lastRequestTime' = now
    /\ rlDispatch' = [rlDispatch EXCEPT ![c] = now]
    /\ UNCHANGED <<rlWake, rlStart, timeVars, cacheVars, fetchVars, oaVars, exportVars, dlVars>>

RateTickSteps == {1, RATE_LIMIT_DELAY - 1, RATE_LIMIT_DELAY}

\* Time passes; a due timer fires before time passes it.
RateTick(d) ==
    /\ ticks < MaxTicks
    /\ \A c \in Callers : rlPc[c] = "waiting" => now + d <= rlWake[c]
    /\ now' = now + d
    /\ ticks' = ticks + 1
    /\ UNCHANGED <<rateVars, cacheVars, fetchVars, oaVars, exportVars, dlVars>>

\* The earliest timer among the suspended calls.
NextWake ==
    CHOOSE w \in {rlWake[c] : c \in {x \in Callers : rlPc[x] = "waiting"}} :
        \A c \in Callers : rlPc[c] = "waiting" => w <= rlWake[c]

\* The event loop is idle until the earliest setTimeout of a suspended call.
TimerDue ==
    /\ \E c \in Callers : rlPc[c] = "waiting"
    /\ NextWake > now
    /\ now' = NextWake
    /\ UNCHANGED <<ticks, rateVars, cacheVars, fetchVars, oaVars, exportVars, dlVars>>

-----------------------------------------------------------------------------
(* The memory cache: a JavaScript Map as the sequence of its entries *)

MapHas(c, k) == \E i \in 1..Len(c) : c[i].key = k

MapIndex(c, k) == CHOOSE i \in 1..Len(c) : c[i].key = k

MapKeys(c) == {c[i].key : i \in 1..Len(c)}

\* Map.prototype.delete
MapDelete(c, k) == SelectSeq(c, LAMBDA e : e.key # k)

\* Map.prototype.set: a present key keeps its place, a new key goes last.
MapSet(c, k, e) ==
    IF MapHas(c, k) THEN [c EXCEPT ![MapIndex(c, k)] = e] ELSE Append(c, e)

\* Mutant of Fresh: an entry exactly cacheTimeout old still counts as fresh.
FreshInclusive(c, k, t) == MapHas(c, k) /\ t - c[MapIndex(c, k)].timestamp <= cacheTimeout

Fresh(c, k, t) == MapHas(c, k) /\ t - c[MapIndex(c, k)].timestamp < cacheTimeout

\* What getFromCache returns.
getFromCacheValue(c, k, t) ==
    IF Fresh(c, k, t) THEN c[MapIndex(c, k)].data ELSE Null

\* The Map after getFromCache.
getFromCacheMap(c, k, t) ==
    IF MapHas(c, k) /\ ~Fresh(c, k, t) THEN MapDelete(c, k) ELSE c

\* The counters after getFromCache.
getFromCacheStats(s, c, k, t) ==
    IF Fresh(c, k, t) THEN [s EXCEPT !.hits = @ + 1] ELSE [s EXCEPT !.misses = @ + 1]

\* Mutant of setCacheEvicts: the Map is let grow by one entry more.
setCacheEvictsLate(c) == Len(c) > maxCacheSize

\* Whether setCache evicts, and the key it evicts.
setCacheEvicts(c) == Len(c) >= maxCacheSize

\* Mutant of oldestKey: the last key of the Map's iteration order.
newestKey(c) == c[Len(c)].key

oldestKey(c) == c[1].key

\* Mutant of setCacheMap: the entry is never stored.
setCacheMapDropped(c, k, v, t) == c

\* The Map after setCache.
setCacheMap(c, k, v, t) ==
    MapSet(IF setCacheEvicts(c) THEN MapDelete(c, oldestKey(c)) ELSE c,
           k, [key |-> k, data |-> v, timestamp |-> t])

\* The counters after setCache.
setCacheStats(s, c) ==
    [s EXCEPT !.sets = @ + 1,
              !.evictions = IF setCacheEvicts(c) THEN @ + 1 ELSE @]

\* The Map after cleanExpiredCache.
cleanExpiredCacheMap(c, t) == SelectSeq(c, LAMBDA e : ~(t - e.timestamp >= cacheTimeout))

cleanExpiredCacheCount(c, t) == Len(c) - Len(cleanExpiredCacheMap(c, t))

ZeroStats ==
    [hits |-> 0, misses |-> 0, sets |-> 0, evictions |-> 0,
     fileHits |-> 0, fileMisses |-> 0, fileSets |-> 0]


\* getCacheKey: the four arguments joined by "|".
getCacheKey(query, maxResults, daysBack, sortBy) ==
    query \o "|" \o ToString(maxResults) \o "|" \o ToString(daysBack) \o "|" \o sortBy

-----------------------------------------------------------------------------
(* The memory cache driven directly: setCache, getFromCache, clean, clear *)

\* Search signatures that differ in max_results only.
SizeKey(n) == getCacheKey("q", n, 0, "relevance")

CacheKeyDomain == {SizeKey(n) : n \in 1..(maxCacheSize + 1)}

ProbeKeys == {SizeKey(n) : n \in {1, maxCacheSize, maxCacheSize + 1}}

Values == {[v |-> i] : i \in 1..NumValues}

\* History: whether k is the key of the earliest (latest) insertion still in the Map.
EarliestBorn(b, k) ==
    k \in CacheKeyDomain /\ b[k] > 0 /\ \A j \in CacheKeyDomain : b[j] > 0 => b[k] <= b[j]

LatestBorn(b, k) ==
    k \in CacheKeyDomain /\ b[k] > 0 /\ \A j \in CacheKeyDomain : b[j] > 0 => b[k] >= b[j]

\* History after a call that leaves the Map as c2: k was set (or "" for none);
\* reinserted says that k's old entry was deleted by the call before k was set.
BornAfter(c2, k, reinserted) ==
    LET keys2 == MapKeys(c2)
    IN  [x \in CacheKeyDomain |->
            IF x \notin keys2 THEN 0
            ELSE IF x = k /\ (born[x] = 0 \/ reinserted) THEN bornNext
            ELSE born[x]]

LostAfter(c2, k) ==
    LET keys1 == MapKeys(cache)
        keys2 == MapKeys(c2)
    IN  [x \in CacheKeyDomain |->
            IF x = k THEN FALSE
            ELSE lost[x] \/ (x \in keys1 /\ x \notin keys2)]

OpRecord(name, k, ret) == [name |-> name, key |-> k, ret |-> ret]

\* History after setCache(k, v).
HistoryAfterSet(k, v) ==
    /\ born' = BornAfter(cache', k, setCacheEvicts(cache) /\ oldestKey(cache) = k)
    /\ bornNext' = bornNext + 1
    /\ written' = [written EXCEPT ![k] = [data |-> v, timestamp |-> now]]
    /\ lost' = LostAfter(cache', k)

\* History after a call that sets no key.
HistoryAfterRemoval ==
    /\ born' = BornAfter(cache', "", FALSE)
    /\ lost' = LostAfter(cache', "")
    /\ UNCHANGED <<bornNext, written>>

\* setCache(k, v)
CacheSet(k, v) ==
    /\ ops < MaxOps
    /\ cache' = setCacheMap(cache, k, v, now)
    /\ cacheStats' = setCacheStats(cacheStats, cache)
    /\ evictedLog' = IF setCacheEvicts(cache) THEN oldestKey(cache) ELSE evictedLog
    /\ cacheOp' = OpRecord("set", k, Null)
    /\ HistoryAfterSet(k, v)
    /\ ops' = ops + 1
    /\ UNCHANGED <<timeVars, rateVars, fetchVars, oaVars, exportVars, dlVars>>

\* getFromCache(k)
CacheGet(k) ==
    /\ ops < MaxOps
    /\ cache' = getFromCacheMap(cache, k, now)
    /\ cacheStats' = getFromCacheStats(cacheStats, cache, k, now)
    /\ cacheOp' = OpRecord("get", k, getFromCacheValue(cache, k, now))
    /\ HistoryAfterRemoval
    /\ ops' = ops + 1
    /\ UNCHANGED <<evictedLog, timeVars, rateVars, fetchVars, oaVars, exportVars, dlVars>>

\* cleanExpiredCache(), the "clean" action of pubmed_cache_info
CacheClean ==
    /\ ops < MaxOps
    /\ cache' = cleanExpiredCacheMap(cache, now)
    /\ cacheOp' = OpRecord("clean", "", [cleaned |-> cleanExpiredCacheCount(cache, now)])
    /\ HistoryAfterRemoval
    /\ ops' = ops + 1
    /\ UNCHANGED <<cacheStats, evictedLog, timeVars, rateVars, fetchVars, oaVars, exportVars, dlVars>>

\* The "clear" action of pubmed_cache_info
CacheClear ==
    /\ ops < MaxOps
    /\ cache' = <<>>
    /\ cacheStats' = ZeroStats
    /\ cacheOp' = OpRecord("clear", "", [cleaned |-> Len(cache)])
    /\ HistoryAfterRemoval
    /\ ops' = ops + 1
    /\ UNCHANGED <<evictedLog, timeVars, rateVars, fetchVars, oaVars, exportVars, dlVars>>

\* The Map that setCache(SizeKey(1), v), ..., setCache(SizeKey(n), v) leave when
\* called one after the other at time t on an empty Map, n < maxCacheSize: no
\* call evicts and every key is new, so each entry is appended.
setCacheMany(n, v, t) ==
    [i \in 1..n |-> [key |-> SizeKey(i), data |-> v, timestamp |-> t]]

\* maxCacheSize - 1 searches with distinct signatures store their results.
CacheWarm ==
    LET v == [v |-> 1] IN
    /\ ops < MaxOps
    /\ cache = <<>>
    /\ bornNext = 1
    /\ cache' = setCacheMany(maxCacheSize - 1, v, now)
    /\ cacheStats' = [cacheStats EXCEPT !.sets = @ + (maxCacheSize - 1)]
    /\ cacheOp' = OpRecord("warm", "", Null)
    /\ born' = [x \in CacheKeyDomain |->
                  IF \E n \in 1..(maxCacheSize - 1) : x = SizeKey(n)
                  THEN CHOOSE n \in 1..(maxCacheSize - 1) : x = SizeKey(n) ELSE 0]
    /\ bornNext' = maxCacheSize
    /\ written' = [x \in CacheKeyDomain |->
                  IF x \in MapKeys(cache') THEN [data |-> v, timestamp |-> now] ELSE written[x]]
    /\ lost' = [x \in CacheKeyDomain |-> IF x \in MapKeys(cache') THEN FALSE ELSE lost[x]]
    /\ ops' = ops + 1
    /\ UNCHANGED <<evictedLog, timeVars, rateVars, fetchVars, oaVars, exportVars, dlVars>>

CacheTickSteps == {1, cacheTimeout - 1}

CacheTick(d) ==
    /\ ticks < MaxTicks
    /\ now' = now + d
    /\ ticks' = ticks + 1
    /\ cacheOp' = OpRecord("tick", "", Null)
    /\ UNCHANGED <<cache, cacheStats, evictedLog, born, bornNext, written, lost, ops, rateVars, fetchVars, oaVars, exportVars, dlVars>>

-----------------------------------------------------------------------------
(* The per-paper file cache: getPaperFromFileCache, setPaperToFileCache *)

Pmids == {ToString(i) : i \in 1..NumPmids}

\* Identifier lists without repetition, as a tool call or esearch gives them:
\* none, one id, or two ids in either order.
IdLists ==
    {<<>>, <<"1">>} \cup {x \in Pmids \X Pmids : x[1] # x[2]}

Range(q) == {q[i] : i \in 1..Len(q)}

\* Mutant of PaperExpired: the operands of the subtraction are swapped.
PaperExpiredSwapped(f, t) == f.timestamp - t > PAPER_CACHE_EXPIRY

\* The expiry test of getPaperFromFileCache on a file that exists.
PaperExpired(f, t) == t - f.timestamp > PAPER_CACHE_EXPIRY

\* A file of cache/papers that readFileSync or JSON.parse throws on.
CorruptFile == [corrupt |-> TRUE]

Readable(f) == f # Null /\ "corrupt" \notin DOMAIN f

\* What getPaperFromFileCache returns: the catch turns a file that cannot be
\* read or parsed into a miss.
getPaperFromFileCache(fs, id, t) ==
    IF ~Readable(fs[id]) \/ PaperExpired(fs[id], t) THEN Null ELSE fs[id].data

\* The files after getPaperFromFileCache was called for every id of ids:
\* an expired file is unlinked.
FilesAfterReads(fs, ids, t) ==
    [id \in Pmids |->
        IF id \in Range(ids) /\ Readable(fs[id]) /\ PaperExpired(fs[id], t) THEN Null ELSE fs[id]]

\* The file setPaperToFileCache writes: JSON.stringify and JSON.parse keep the
\* strings of the record as they are.
PaperFile(article, t) == [timestamp |-> t, data |-> article]

\* Mutant of FilesAfterWrites: the new articles are not saved.
FilesUnwritten(fs, arts, t) == fs

\* The files after setPaperToFileCache was called for every article of arts.
FilesAfterWrites(fs, arts, t) ==
    [id \in Pmids |->
        IF \E i \in 1..Len(arts) : arts[i].pmid = id
        THEN PaperFile(arts[CHOOSE i \in 1..Len(arts) :
                              arts[i].pmid = id /\ \A j \in 1..Len(arts) : arts[j].pmid = id => j <= i], t)
        ELSE fs[id]]

\* The counters after getPaperFromFileCache was called for every id of ids,
\* hits of them found live.
FileReadStats(s, ids, hits) ==
    [s EXCEPT !.fileHits = @ + hits, !.fileMisses = @ + (Len(ids) - hits)]

\* The counters after setPaperToFileCache was called for every article of arts.
FileWriteStats(s, arts) == [s EXCEPT !.fileSets = @ + Len(arts)]

\* The papers of index.json after updateCacheIndex(pmid, true) for every article.
IndexAfterWrites(idx, arts) == idx \cup {arts[i].pmid : i \in 1..Len(arts)}

\* stats.totalPapers as updateCacheIndex and cleanExpiredPaperCache write it:
\* Object.keys(indexData.papers).length, whatever the counter was.
updateCacheIndexTotal(papers) == Cardinality(papers)

\* The faults of the disk: writeFileSync throws on a disk that is full;
\* index.json cannot be parsed.
Faults == {"none", "disk_full", "index_corrupt"}

\* Whether the writeFileSync of setPaperToFileCache succeeds.  When it throws,
\* the catch of setPaperToFileCache ends the call before fileSets++ and
\* updateCacheIndex.
PaperWrites(flt) == flt # "disk_full"

\* Whether updateCacheIndex reads, parses and writes index.json; when it
\* cannot, its catch logs the error.
IndexWrites(flt) == flt = "none"

\* Mutant of setPaperToFileCacheThrows: the body has no try and catch.
setPaperToFileCacheUncaught(flt) == flt = "disk_full"

\* Whether setPaperToFileCache throws to fetchArticleDetails: its whole body
\* is inside try and catch.
setPaperToFileCacheThrows(flt) == FALSE

\* The number of an identifier: Object.entries lists the integer-like keys of
\* indexData.papers in ascending numeric order.
PmidNumber(id) == CHOOSE i \in 1..NumPmids : ToString(i) = id

\* cleanExpiredPaperCache: the entries the loop gets through.  It ends at the
\* first listed file that cannot be read or parsed, which throws.
CleanProcessed(fs, idx) ==
    {id \in idx : \A b \in idx : fs[b] # Null /\ ~Readable(fs[b]) => PmidNumber(id) < PmidNumber(b)}

\* cleanExpiredPaperCache: the files it unlinks, and the entries it deletes
\* from indexData.papers.
CleanUnlinked(fs, idx, t) ==
    {id \in CleanProcessed(fs, idx) : Readable(fs[id]) /\ PaperExpired(fs[id], t)}

CleanDeleted(fs, idx, t) ==
    CleanUnlinked(fs, idx, t) \cup {id \in CleanProcessed(fs, idx) : fs[id] = Null}

\* cleanExpiredPaperCache: whether it ends in its catch, which returns 0: the
\* index cannot be parsed, a listed file cannot be read, or the index cannot be
\* written back.
CleanThrows(fs, idx, t, flt) ==
    \/ flt = "index_corrupt"
    \/ CleanProcessed(fs, idx) # idx
    \/ flt = "disk_full" /\ CleanDeleted(fs, idx, t) # {}

\* The files, the papers of index.json and the count returned after
\* cleanExpiredPaperCache.
cleanExpiredPaperCacheFiles(fs, idx, t, flt) ==
    IF flt = "index_corrupt" THEN fs
    ELSE [id \in DOMAIN fs |-> IF id \in CleanUnlinked(fs, idx, t) THEN Null ELSE fs[id]]

cleanExpiredPaperCacheIndex(fs, idx, t, flt) ==
    IF CleanThrows(fs, idx, t, flt) THEN idx ELSE idx \ CleanDeleted(fs, idx, t)

cleanExpiredPaperCacheCount(fs, idx, t, flt) ==
    IF CleanThrows(fs, idx, t, flt) THEN 0 ELSE Cardinality(CleanDeleted(fs, idx, t))

-----------------------------------------------------------------------------
(* The metadata fetcher: searchPubMed, fetchArticleDetails, fetchFromPubMed *)

Procs == 1..NumProcs

SearchKeys == {getCacheKey("q", n, 0, "relevance") : n \in {5}}

\* fetchArticleDetails, first loop: the cached articles in the order of ids.
RECURSIVE CachedArticles(_, _, _)
CachedArticles(fs, ids, t) ==
    IF ids = <<>> THEN <<>>
    ELSE IF getPaperFromFileCache(fs, Head(ids), t) # Null
         THEN <<getPaperFromFileCache(fs, Head(ids), t)>> \o CachedArticles(fs, Tail(ids), t)
         ELSE CachedArticles(fs, Tail(ids), t)

\* Mutant of uncachedIds: every id is requested, cached or not.
uncachedIdsAll(fs, ids, t) == ids

\* fetchArticleDetails, first loop: uncachedIds.
uncachedIds(fs, ids, t) ==
    SelectSeq(ids, LAMBDA id : getPaperFromFileCache(fs, id, t) = Null)

\* Array.prototype.find on article.pmid === id: the first match, or undefined.
Find(arts, id) ==
    IF \E i \in 1..Len(arts) : arts[i].pmid = id
    THEN arts[CHOOSE i \in 1..Len(arts) :
                arts[i].pmid = id /\ \A j \in 1..Len(arts) : arts[j].pmid = id => i <= j]
    ELSE Null

\* The last line of fetchArticleDetails: ids.map(id => articles.find(...)).
ByOriginalOrder(ids, arts) == [i \in 1..Len(ids) |-> Find(arts, ids[i])]

\* fetchFromPubMed: the articles built from an esummary answer in which every
\* requested id has an entry with title v.
SummaryArticles(ids, v) == [i \in 1..Len(ids) |-> [pmid |-> ids[i], title |-> v]]

\* Mutant of fetchFromPubMedThrows: response.ok is not looked at.
fetchFromPubMedThrowsUnchecked(ok, resolved, ids) == ~(Range(ids) \subseteq resolved)

\* Whether fetchFromPubMed throws on an answer: a status that is not ok, or an
\* id without an entry in data.result (article.title of undefined).
fetchFromPubMedThrows(ok, resolved, ids) == ~ok \/ ~(Range(ids) \subseteq resolved)

\* The result object of searchPubMed.
SearchResult(arts, total) == [articles |-> arts, total |-> total, query |-> "q"]

\* The articles a finished call returned.
Articles(rec) == IF rec.op = "search" THEN rec.result.articles ELSE rec.result

\* A tool call: pc is where it stands, reqs the upstream requests it has sent,
\* result what it returned, err the error it threw.  The other fields are
\* history: start and end are the times the call started and returned; prior
\* says that a search with the same signature returned less than cacheTimeout
\* before this one started, priorStored that such a search stored its result
\* and the entry was not removed since, storedResult the result then stored;
\* live and stale are the ids whose file
\* was within or beyond PAPER_CACHE_EXPIRY when the call read it, held the
\* payload of each live file, expect the payload last written for each id if
\* written within PAPER_CACHE_EXPIRY; httpFail says that the upstream answered
\* with a status that is not ok, unresolved are the ids the answer had no
\* entry for, setKey says that the call stored its result in the Map; full is
\* include_full_text of handleGetDetails, k the article whose abstract text is
\* being fetched, fullAbstract the texts got so far (Null: the fetch failed);
\* unreadable are the ids whose file could not be read or parsed, writeFault
\* the fault of the disk when the call wrote its articles.
IdleProc ==
    [pc |-> "idle", op |-> "none", key |-> "", ids |-> <<>>, cached |-> <<>>,
     uncached |-> <<>>, wake |-> 0, start |-> 0, end |-> 0, reqs |-> <<>>, result |-> Null,
     err |-> "", prior |-> FALSE, priorStored |-> FALSE, storedResult |-> Null,
     live |-> {}, stale |-> {}, held |-> [id \in Pmids |-> Null],
     expect |-> [id \in Pmids |-> Null],
     httpFail |-> FALSE, unresolved |-> {}, setKey |-> FALSE,
     full |-> FALSE, k |-> 0, fullAbstract |-> <<>>, unreadable |-> {}, writeFault |-> "none"]

\* Where a call stands while it waits in enforceRateLimit in front of a
\* request of the given kind, and while that request is in flight.
WaitPc(kind) ==
    IF kind = "esearch" THEN "s_wait" ELSE IF kind = "esummary" THEN "d_wait" ELSE "a_wait"

FetchPc(kind) ==
    IF kind = "esearch" THEN "s_fetch" ELSE IF kind = "esummary" THEN "d_fetch" ELSE "a_fetch"

\* The request a call sends when it leaves enforceRateLimit: esearch in
\* searchPubMed, esummary in fetchFromPubMed, efetch in fetchFullAbstract.
WaitKind(pc) ==
    IF pc = "s_wait" THEN "esearch" ELSE IF pc = "d_wait" THEN "esummary" ELSE "efetch"

\* The proc record and the rate limiter after the call reaches an
\* await this.enforceRateLimit() in front of a request of the given kind.
AwaitRateLimit(p, rec, kind, ids) ==
    IF RateLimitWait(now, lastRequestTime) > 0
    THEN /\ proc' = [proc EXCEPT ![p] =
                 [rec EXCEPT !.pc = WaitPc(kind),
                             !.wake = now + RateLimitWait(now, lastRequestTime)]]
         /\ UNCHANGED lastRequestTime
    ELSE /\ proc' = [proc EXCEPT ![p] =
                 [rec EXCEPT !.pc = FetchPc(kind),
                             !.reqs = Append(@, [kind |-> kind, ids |-> ids, at |-> now])]]
         /\ lastRequestTime' = now

\* handleGetDetails / handleBatchQuery after fetchArticleDetails returned out:
\* with include_full_text the first fetchFullAbstract starts, otherwise the
\* handler returns.
DetailsReturned(p, rec, out) ==
    IF rec.full /\ out # <<>>
    THEN AwaitRateLimit(p, [rec EXCEPT !.result = out, !.k = 1], "efetch", <<out[1].pmid>>)
    ELSE /\ proc' = [proc EXCEPT ![p] = [rec EXCEPT !.pc = "done", !.end = now, !.result = out]]
         /\ UNCHANGED lastRequestTime

\* The end of searchPubMed after fetchArticleDetails returned arts: setCache and return.
SearchStore(p, rec, arts, s) ==
    LET result == SearchResult(arts, Len(rec.ids)) IN
    /\ proc' = [proc EXCEPT ![p] =
            [rec EXCEPT !.pc = "done", !.end = now, !.setKey = TRUE, !.result = result]]
    /\ cache' = setCacheMap(cache, rec.key, result, now)
    /\ cacheStats' = setCacheStats(s, cache)
    /\ evictedLog' = IF setCacheEvicts(cache) THEN oldestKey(cache) ELSE evictedLog
    /\ HistoryAfterSet(rec.key, result)

\* fetchArticleDetails(ids) up to its await (or to its end when every id is cached).
\* rec is the call's record so far; a search stores its result on the way out.
FetchArticleDetailsBegin(p, rec, ids) ==
    LET arts == CachedArticles(files, ids, now)
        unc == uncachedIds(files, ids, now)
        rec1 == [rec EXCEPT !.ids = ids, !.cached = arts, !.uncached = unc,
                     !.live = {id \in Range(ids) : Readable(files[id]) /\ now - files[id].timestamp <= PAPER_CACHE_EXPIRY},
                     !.stale = {id \in Range(ids) : Readable(files[id]) /\ now - files[id].timestamp > PAPER_CACHE_EXPIRY},
                     !.unreadable = {id \in Range(ids) : files[id] # Null /\ ~Readable(files[id])},
                     !.held = [id \in Pmids |->
                                   IF id \in Range(ids) /\ Readable(files[id])
                                      /\ now - files[id].timestamp <= PAPER_CACHE_EXPIRY
                                   THEN files[id].data ELSE Null],
                     !.expect = [id \in Pmids |->
                                   IF id \in Range(ids) /\ stored[id] # Null
                                      /\ now - stored[id].timestamp <= PAPER_CACHE_EXPIRY
                                   THEN stored[id].data ELSE Null]]
        out == ByOriginalOrder(ids, arts)
        stats == FileReadStats(cacheStats, ids, Len(arts))
    IN  /\ files' = FilesAfterReads(files, ids, now)
        /\ UNCHANGED <<indexPapers, totalPapers, stored>>
        /\ IF unc # <<>>
           THEN /\ AwaitRateLimit(p, rec1, "esummary", unc)
                /\ cacheStats' = stats
                /\ UNCHANGED <<cache, evictedLog, born, bornNext, written, lost>>
           ELSE IF rec.op = "search"
                THEN /\ SearchStore(p, rec1, out, stats)
                     /\ UNCHANGED lastRequestTime
                ELSE /\ DetailsReturned(p, rec1, out)
                     /\ cacheStats' = stats
                     /\ UNCHANGED <<cache, evictedLog, born, bornNext, written, lost>>

\* process.env.ENDNOTE_EXPORT is not set: the export is enabled.
ENDNOTE_EXPORT_ENABLED == TRUE

\* exportArticleToEndNote for each article: <pmid>.ris and <pmid>.bib are
\* written (writes counts how often).
EndNoteFilesAfter(f, arts, t) ==
    [id \in Pmids |->
        IF \E i \in 1..Len(arts) : arts[i].pmid = id
        THEN [mtime |-> t, writes |-> (IF f[id] = Null THEN 0 ELSE f[id].writes) + 1]
        ELSE f[id]]

\* updateEndNoteIndex: the record of every article exported is set.
updateEndNoteIndex(idx, arts, t) ==
    [id \in Pmids |->
        IF \E i \in 1..Len(arts) : arts[i].pmid = id
        THEN [pmid |-> id, title |-> Find(arts, id).title, exported |-> t]
        ELSE idx[id]]

\* handleSearch after searchPubMed returned in this step (started: the step
\* is the one that began the call): autoExportToEndNote(result.articles) when
\* there are articles.
handleSearchExport(p, started) ==
    IF /\ proc'[p].op = "search" /\ proc'[p].pc = "done"
       /\ started \/ proc[p].pc # "done"
       /\ ENDNOTE_EXPORT_ENABLED
       /\ proc'[p].result.articles # <<>>
    THEN /\ endnoteFiles' = EndNoteFilesAfter(endnoteFiles, proc'[p].result.articles, now)
         /\ endnoteIndex' = updateEndNoteIndex(endnoteIndex, proc'[p].result.articles, now)
    ELSE UNCHANGED exportVars

\* A tool call that is over leaves its slot to the next one.
Free(p) == proc[p].pc \in {"idle", "done", "failed"} /\ runs < MaxRuns

\* searchPubMed(query, maxResults, daysBack, sortBy) up to its first await.
searchPubMed(p, key) ==
    /\ Free(p)
    /\ runs' = runs + 1
    /\ LET storedBy == {q \in Procs : /\ proc[q].pc = "done" /\ proc[q].op = "search"
                                       /\ proc[q].key = key /\ proc[q].setKey
                                       /\ now - proc[q].end < cacheTimeout
                                       /\ ~lost[key]}
           rec == [IdleProc EXCEPT !.op = "search", !.key = key, !.start = now,
                       !.prior = \E q \in Procs :
                                     /\ proc[q].pc = "done" /\ proc[q].op = "search"
                                     /\ proc[q].key = key /\ now - proc[q].end < cacheTimeout,
                       !.priorStored = storedBy # {},
                       !.storedResult = IF storedBy # {} THEN written[key].data ELSE Null]
       IN  /\ cache' = getFromCacheMap(cache, key, now)
           /\ cacheStats' = getFromCacheStats(cacheStats, cache, key, now)
           /\ HistoryAfterRemoval
           /\ IF getFromCacheValue(cache, key, now) # Null
              THEN /\ proc' = [proc EXCEPT ![p] =
                          [rec EXCEPT !.pc = "done", !.end = now,
                                      !.result = getFromCacheValue(cache, key, now)]]
                   /\ UNCHANGED lastRequestTime
              ELSE AwaitRateLimit(p, rec, "esearch", <<>>)
    /\ handleSearchExport(p, TRUE)
    /\ UNCHANGED <<timeVars, rlPc, rlWake, rlStart, rlDispatch,
                   evictedLog, cacheOp, ops, files, indexPapers, totalPapers, stored, oaVars, dlVars, paperVars>>

\* handleGetDetails / handleBatchQuery: fetchArticleDetails(ids) up to its await.
fetchArticleDetails(p, ids) ==
    /\ Free(p)
    /\ ids # <<>>
    /\ runs' = runs + 1
    /\ FetchArticleDetailsBegin(p, [IdleProc EXCEPT !.op = "details", !.start = now], ids)
    /\ UNCHANGED <<timeVars, rlPc, rlWake, rlStart, rlDispatch, cacheOp, ops, oaVars, exportVars, dlVars, paperVars>>

\* The setTimeout of a suspended enforceRateLimit fires; the request goes out.
RateLimitResume(p) ==
    /\ proc[p].pc \in {"s_wait", "d_wait", "a_wait"}
    /\ now >= proc[p].wake
    /\ lastRequestTime' = now
    /\ proc' = [proc EXCEPT ![p] =
            [@ EXCEPT !.pc = FetchPc(WaitKind(proc[p].pc)),
                      !.reqs = Append(@, [kind |-> WaitKind(proc[p].pc),
                                          ids |-> IF proc[p].pc = "a_wait"
                                                  THEN <<proc[p].result[proc[p].k].pmid>>
                                                  ELSE proc[p].uncached,
                                          at |-> now])]]
    /\ UNCHANGED <<timeVars, rlPc, rlWake, rlStart, rlDispatch, cacheVars,
                   files, indexPapers, totalPapers, runs, stored, oaVars, exportVars, dlVars, paperVars>>

\* The esearch answer arrives: searchPubMed from its fetch to its next await or its end.
\* ok is response.ok, ids the idlist of the answer.
SearchResponse(p, ok, ids) ==
    /\ proc[p].pc = "s_fetch"
    /\ ~ok => ids = <<>>
    /\ IF ~ok
       THEN /\ proc' = [proc EXCEPT ![p] = [@ EXCEPT !.pc = "failed", !.end = now,
                                                !.httpFail = TRUE,
                                                !.err = "PubMed search failed"]]
            /\ UNCHANGED <<lastRequestTime, cache, cacheStats, evictedLog, born, bornNext,
                           written, lost, files, indexPapers, totalPapers, stored>>
       ELSE IF ids = <<>>
       THEN /\ proc' = [proc EXCEPT ![p] = [@ EXCEPT !.pc = "done", !.end = now,
                                                !.result = SearchResult(<<>>, 0)]]
            /\ UNCHANGED <<lastRequestTime, cache, cacheStats, evictedLog, born, bornNext,
                           written, lost, files, indexPapers, totalPapers, stored>>
       ELSE FetchArticleDetailsBegin(p, proc[p], ids)
    /\ handleSearchExport(p, FALSE)
    /\ UNCHANGED <<timeVars, rlPc, rlWake, rlStart, rlDispatch, runs, cacheOp, ops, oaVars, dlVars, paperVars>>

\* The esummary answer arrives: fetchFromPubMed from its fetch to its end, then
\* fetchArticleDetails to its end, then (in a search) searchPubMed to its end.
\* ok is response.ok, resolved the ids with an entry in data.result, v the
\* title of the entries.
SummaryResponse(p, ok, resolved, v) ==
    /\ proc[p].pc = "d_fetch"
    /\ resolved \subseteq Range(proc[p].uncached)
    /\ fetchFromPubMedThrows(ok, resolved, proc[p].uncached) => v = 1
    /\ LET rec == [proc[p] EXCEPT !.httpFail = ~ok,
                                  !.unresolved = IF ok THEN Range(proc[p].uncached) \ resolved ELSE {},
                                  !.writeFault = IF fetchFromPubMedThrows(ok, resolved, proc[p].uncached)
                                                 THEN "none" ELSE fault]
           new == SummaryArticles(proc[p].uncached, v)
           out == ByOriginalOrder(proc[p].ids, proc[p].cached \o new)
       IN  IF fetchFromPubMedThrows(ok, resolved, proc[p].uncached)
              \/ setPaperToFileCacheThrows(fault)
           THEN /\ proc' = [proc EXCEPT ![p] =
                       [rec EXCEPT !.pc = "failed", !.end = now,
                                   !.err = IF ~ok THEN "Failed to fetch article details"
                                           ELSE IF ~(Range(proc[p].uncached) \subseteq resolved)
                                           THEN "TypeError" ELSE "ENOSPC"]]
                /\ UNCHANGED <<lastRequestTime, cache, cacheStats, evictedLog, born, bornNext,
                               written, lost, files, indexPapers, totalPapers, stored>>
           ELSE /\ files' = IF PaperWrites(fault) THEN FilesAfterWrites(files, new, now) ELSE files
                /\ indexPapers' = IF IndexWrites(fault) THEN IndexAfterWrites(indexPapers, new)
                                  ELSE indexPapers
                /\ totalPapers' = IF IndexWrites(fault)
                                  THEN updateCacheIndexTotal(IndexAfterWrites(indexPapers, new))
                                  ELSE totalPapers
                /\ stored' = [id \in Pmids |->
                                IF id \in Range(proc[p].uncached) /\ PaperWrites(fault)
                                THEN [timestamp |-> now, data |-> Find(new, id)]
                                ELSE stored[id]]
                /\ IF proc[p].op = "search"
                   THEN /\ SearchStore(p, rec, out, IF PaperWrites(fault)
                                                     THEN FileWriteStats(cacheStats, new)
                                                     ELSE cacheStats)
                        /\ UNCHANGED lastRequestTime
                   ELSE /\ DetailsReturned(p, rec, out)
                        /\ cacheStats' = IF PaperWrites(fault) THEN FileWriteStats(cacheStats, new)
                                         ELSE cacheStats
                        /\ UNCHANGED <<cache, evictedLog, born, bornNext, written, lost>>
    /\ handleSearchExport(p, FALSE)
    /\ UNCHANGED <<timeVars, rlPc, rlWake, rlStart, rlDispatch, runs, cacheOp, ops, oaVars, dlVars, paperVars>>

\* The efetch answer arrives: fetchFullAbstract returns the text or throws,
\* handleGetDetails keeps the text or logs the failure, and goes on to the
\* next article or returns.
AbstractResponse(p, ok) ==
    /\ proc[p].pc = "a_fetch"
    /\ LET rec == [proc[p] EXCEPT !.fullAbstract = Append(@, IF ok THEN [text |-> "abstract"] ELSE Null)]
           out == rec.result
       IN  IF rec.k < Len(out)
           THEN AwaitRateLimit(p, [rec EXCEPT !.k = @ + 1], "efetch", <<out[rec.k + 1].pmid>>)
           ELSE /\ proc' = [proc EXCEPT ![p] = [rec EXCEPT !.pc = "done", !.end = now]]
                /\ UNCHANGED lastRequestTime
    /\ UNCHANGED <<timeVars, rlPc, rlWake, rlStart, rlDispatch, cacheVars,
                   files, indexPapers, totalPapers, runs, stored, oaVars, exportVars, dlVars, paperVars>>

\* What the request handler of CallToolRequestSchema returns for a call of
\* handleSearch, handleGetDetails or handleBatchQuery that is over: the JSON
\* object the handler returned, or, when the handler threw, the text
\* "Error: " and the message of the error, which is no JSON object.
CallToolResponse(rec) ==
    IF rec.pc = "failed" THEN [text |-> "Error: " \o rec.err]
    ELSE [success |-> TRUE, articles |-> Articles(rec)]

\* A list of n identifiers (an array may name an identifier more than once).
LongList(n) == [k \in 1..n |-> ToString(((k - 1) % NumPmids) + 1)]

\* The most identifiers handleGetDetails and handleBatchQuery accept.
MaxDetails == 20

\* Mutant of TooMany: the length is not looked at.
TooManyNever(pmids, cap) == FALSE

\* The test of a list of identifiers against a hard cap.
TooMany(pmids, cap) == Len(pmids) > cap

\* handleGetDetails({pmids, include_full_text}) up to its first await.  The
\* message of the error it throws is Chinese text: at most 20 identifiers per
\* call, use the batch tool.
handleGetDetails(p, pmids, include_full_text) ==
    /\ Free(p)
    /\ runs' = runs + 1
    /\ LET rec == [IdleProc EXCEPT !.op = "details", !.start = now, !.full = include_full_text] IN
       IF TooMany(pmids, MaxDetails)
       THEN /\ proc' = [proc EXCEPT ![p] =
                   [rec EXCEPT !.pc = "failed", !.ids = pmids, !.end = now,
                               !.err = "at most 20 PMIDs per query"]]
            /\ UNCHANGED <<lastRequestTime, cache, cacheStats, evictedLog, born, bornNext,
                           written, lost, files, indexPapers, totalPapers, stored>>
       ELSE FetchArticleDetailsBegin(p, rec, pmids)
    /\ UNCHANGED <<timeVars, rlPc, rlWake, rlStart, rlDispatch, cacheOp, ops, oaVars, exportVars, dlVars, paperVars>>

\* handleBatchQuery({pmids}) up to its first await.  The message of the error
\* it throws is Chinese text: a batch query takes at most 20 identifiers.
handleBatchQuery(p, pmids) ==
    /\ Free(p)
    /\ runs' = runs + 1
    /\ LET rec == [IdleProc EXCEPT !.op = "batch_query", !.start = now] IN
       IF TooMany(pmids, MaxDetails)
       THEN /\ proc' = [proc EXCEPT ![p] =
                   [rec EXCEPT !.pc = "failed", !.ids = pmids, !.end = now,
                               !.err = "batch query takes at most 20 PMIDs"]]
            /\ UNCHANGED <<lastRequestTime, cache, cacheStats, evictedLog, born, bornNext,
                           written, lost, files, indexPapers, totalPapers, stored>>
       ELSE FetchArticleDetailsBegin(p, rec, pmids)
    /\ UNCHANGED <<timeVars, rlPc, rlWake, rlStart, rlDispatch, cacheOp, ops, oaVars, exportVars, dlVars, paperVars>>

\* The calls of cleanExpiredPaperCache in one run.
MaxCleans == 1

\* pubmed_cache_info with action "clean_files": cleanExpiredPaperCache.
handleCacheInfoCleanFiles ==
    /\ cleanResp.seq < MaxCleans
    /\ files' = cleanExpiredPaperCacheFiles(files, indexPapers, now, fault)
    /\ indexPapers' = cleanExpiredPaperCacheIndex(files, indexPapers, now, fault)
    /\ totalPapers' = IF cleanExpiredPaperCacheCount(files, indexPapers, now, fault) > 0
                      THEN updateCacheIndexTotal(
                               cleanExpiredPaperCacheIndex(files, indexPapers, now, fault))
                      ELSE totalPapers
    /\ cleanResp' = [cleaned |-> cleanExpiredPaperCacheCount(files, indexPapers, now, fault),
                     seq |-> cleanResp.seq + 1]
    /\ UNCHANGED <<timeVars, rateVars, cacheVars, proc, runs, stored, fault, oaVars, exportVars, dlVars>>

\* A file of cache/papers is damaged (a write that was cut short, a bad sector).
FileCorrupted(id) ==
    /\ Readable(files[id])
    /\ files' = [files EXCEPT ![id] = CorruptFile]
    /\ UNCHANGED <<timeVars, rateVars, cacheVars, indexPapers, totalPapers, proc, runs, stored, paperVars,
                   oaVars, exportVars, dlVars>>

\* The disk fills up, or index.json is damaged.
FaultOccurs(flt) ==
    /\ fault = "none" /\ flt # "none"
    /\ fault' = flt
    /\ UNCHANGED <<timeVars, rateVars, cacheVars, files, indexPapers, totalPapers, proc, runs, stored,
                   cleanResp, oaVars, exportVars, dlVars>>

\* pubmed_cache_info with action "clear" while calls are in progress.
FetchCacheClear ==
    /\ cache # <<>>
    /\ cache' = <<>>
    /\ cacheStats' = ZeroStats
    /\ HistoryAfterRemoval
    /\ UNCHANGED <<timeVars, rateVars, fetchVars, oaVars, exportVars, dlVars, evictedLog, cacheOp, ops>>

FetchTickSteps == {RATE_LIMIT_DELAY, cacheTimeout, PAPER_CACHE_EXPIRY}

\* Time passes.  A due timer fires before time passes it, and a request in
\* flight is over (answered, or timed out after REQUEST_TIMEOUT) long before
\* cacheTimeout passes.  The clock stays within TLC's integers.
FetchTick(d) ==
    /\ ticks < MaxTicks
    /\ now - PAPER_CACHE_EXPIRY + d <= PAPER_CACHE_EXPIRY \div 2
    /\ \A p \in Procs : proc[p].pc \in {"s_wait", "d_wait", "a_wait"} => now + d <= proc[p].wake
    /\ d > RATE_LIMIT_DELAY => \A p \in Procs : proc[p].pc \in {"idle", "done", "failed"}
    /\ now' = now + d
    /\ ticks' = ticks + 1
    /\ UNCHANGED <<rateVars, cacheVars, fetchVars, oaVars, exportVars, dlVars>>

-----------------------------------------------------------------------------
(* The open-access resolver: detectOpenAccess and its three probes *)

OaSources == <<"PMC", "Unpaywall", "Publisher">>

\* The articles detectOpenAccess is given: with or without a pmcid, with or
\* without 'PMC' among the publication types, with or without a doi.
OaArticles ==
    [pmid : {"1"}, pmcid : {"", "PMC1"}, publicationTypes : {{}, {"PMC"}}, doi : {"", "10.1/x"}]

\* What a source answers when it is probed: it confirms a free full text, it
\* denies it, or the probe fails (fetch throws, or the status is not ok).
\* Unpaywall confirms with is_oa and a best_oa_location object; the url field
\* of that object is a string ("confirm") or is null or missing
\* ("confirm_no_url").  The other two sources build the url from a match of
\* their own regular expression, so it is always a string.
OaAnswers == {"confirm", "confirm_no_url", "deny", "error"}

OaWorlds ==
    {w \in [{"PMC", "Unpaywall", "Publisher"} -> OaAnswers] :
        w["PMC"] # "confirm_no_url" /\ w["Publisher"] # "confirm_no_url"}

OaConfirms(answer) == answer \in {"confirm", "confirm_no_url"}

\* The downloadUrl a confirming source gives (a string, held in a record so
\* that it can be compared with null).
OaUrl(src) ==
    CASE src = "PMC" -> [url |-> "https://www.ncbi.nlm.nih.gov/pmc/articles/PMC1/pdf/"]
      [] src = "Unpaywall" -> [url |-> "best_oa_location.url"]
      [] src = "Publisher" -> [url |-> "publisher.pdf"]

\* The url a confirming answer of src carries.
OaAnswerUrl(src, answer) == IF answer = "confirm_no_url" THEN Null ELSE OaUrl(src)

\* The guards of the three steps of detectOpenAccess.
PMCGuard(article) == article.pmcid # "" \/ "PMC" \in article.publicationTypes

\* Mutant of UnpaywallGuard: the test of oaInfo.isOpenAccess is missing.
UnpaywallGuardAlways(article, oaInfo) == article.doi # ""

UnpaywallGuard(article, oaInfo) == article.doi # "" /\ ~oaInfo.isOpenAccess

PublisherGuard(article, oaInfo) == ~oaInfo.isOpenAccess /\ article.doi # ""

\* oaInfo as detectOpenAccess creates it.
NewOaInfo(article) ==
    [isOpenAccess |-> FALSE, sources |-> <<>>, downloadUrl |-> Null, pmcid |-> Null,
     doi |-> article.doi]

\* oaInfo after a source confirmed.
Confirmed(oaInfo, src, url) ==
    [oaInfo EXCEPT !.isOpenAccess = TRUE,
                   !.sources = Append(@, src),
                   !.downloadUrl = url,
                   !.pmcid = IF src = "PMC" THEN "PMC1" ELSE @]

\* The probe detectOpenAccess awaits next after step k (0: none yet), or "done".
NextProbe(k, article, oaInfo) ==
    IF k < 1 /\ PMCGuard(article) THEN "PMC"
    ELSE IF k < 2 /\ UnpaywallGuard(article, oaInfo) THEN "Unpaywall"
    ELSE IF k < 3 /\ PublisherGuard(article, oaInfo) THEN "Publisher"
    ELSE "done"

\* detectOpenAccess from step k to its next await or its return.
OaContinue(k, rec, oaInfo) ==
    LET next == NextProbe(k, rec.article, oaInfo) IN
    oa' = [rec EXCEPT !.pc = next, !.info = oaInfo,
                      !.probes = IF next = "done" THEN @ ELSE Append(@, next)]

IdleOa ==
    [pc |-> "idle", article |-> [pmid |-> "1", pmcid |-> "", publicationTypes |-> {}, doi |-> ""],
     world |-> [src \in {"PMC", "Unpaywall", "Publisher"} |-> "deny"],
     info |-> Null, probes |-> <<>>]

\* detectOpenAccess(article) up to its first await; world is what each source
\* answers when probed.
detectOpenAccess(article, world) ==
    /\ oa.pc \in {"idle", "done"}
    /\ OaContinue(0, [IdleOa EXCEPT !.article = article, !.world = world],
                  NewOaInfo(article))
    /\ UNCHANGED <<timeVars, rateVars, cacheVars, fetchVars, dlVars, exportVars>>

\* Mutant of OaCheck: the failure of a probe escapes the check.
OaCheckUncaught(src, answer) ==
    [thrown |-> answer = "error", available |-> OaConfirms(answer),
     downloadUrl |-> OaAnswerUrl(src, answer)]

\* What the check of src returns for an answer: each of the three checks
\* wraps its probe in try/catch and returns "not available" from the catch
\* and for a status that is not ok, so nothing is thrown to the caller.
OaCheck(src, answer) ==
    [thrown |-> FALSE, available |-> OaConfirms(answer),
     downloadUrl |-> OaAnswerUrl(src, answer)]

\* What oaInfo becomes when the check of src returned r.
OaAfterCheck(oaInfo, src, r) ==
    IF r.available THEN Confirmed(oaInfo, src, r.downloadUrl) ELSE oaInfo

\* detectOpenAccess after the check of step k returned or threw: its own
\* catch logs whatever is thrown inside its try block and falls through to
\* the return of oaInfo as it stands.
OaAfterAwait(k, src) ==
    LET r == OaCheck(src, oa.world[src]) IN
    IF r.thrown THEN oa' = [oa EXCEPT !.pc = "done"]
    ELSE OaContinue(k, oa, OaAfterCheck(oa.info, src, r))

\* The answer to the PMC probe arrives: checkPMCContent returns and
\* detectOpenAccess goes on to its next await or its return.
checkPMCContent ==
    /\ oa.pc = "PMC"
    /\ OaAfterAwait(1, "PMC")
    /\ UNCHANGED <<timeVars, rateVars, cacheVars, fetchVars, dlVars, exportVars>>

\* The answer of Unpaywall arrives.
checkUnpaywall ==
    /\ oa.pc = "Unpaywall"
    /\ OaAfterAwait(2, "Unpaywall")
    /\ UNCHANGED <<timeVars, rateVars, cacheVars, fetchVars, dlVars, exportVars>>

\* The landing page of the publisher arrives.
checkPublisherOA ==
    /\ oa.pc = "Publisher"
    /\ OaAfterAwait(3, "Publisher")
    /\ UNCHANGED <<timeVars, rateVars, cacheVars, fetchVars, dlVars, exportVars>>

-----------------------------------------------------------------------------
(* The full-text store: the PDF files, the ledger index.json, and the      *)
(* downloads of handleDownloadFulltext, handleDetectFulltext and           *)
(* handleBatchDownload (FULLTEXT_MODE enabled)                             *)

PDF_CACHE_EXPIRY == 90 * 24 * 60 * 60 * (1000 \div MsPerUnit)
MAX_PDF_SIZE == 50 * 1024 * 1024

\* The sizes in bytes of the documents a download URL serves: the largest
\* size MAX_PDF_SIZE admits and the smallest it does not.
DocSizes == {MAX_PDF_SIZE, MAX_PDF_SIZE + 1}

\* The size of the file an interrupted transfer leaves behind.
PartialSize == MAX_PDF_SIZE \div 2

\* Math.random() * 2000 + 1000 and Math.random() * 3000 + 2000 milliseconds:
\* the least and the greatest delay of each range.
PreDelays == {1000 \div MsPerUnit, 2999 \div MsPerUnit}
InterDelays == {2000 \div MsPerUnit, 4999 \div MsPerUnit}

\* os.platform() of the machine the server runs on.
Platform == "linux"

getDownloadCommand(platform) ==
    CASE platform = "win32" -> "powershell"
      [] platform \in {"darwin", "linux"} -> "wget"
      [] OTHER -> "curl"

PdfFile(size, t) == [size |-> size, mtime |-> t]

\* isPDFCached(pmid).cached for the files f at time t: the file exists and
\* its age is below PDF_CACHE_EXPIRY.  The ledger is not consulted.
isPDFCached(f, pmid, t) == f[pmid] # Null /\ t - f[pmid].mtime < PDF_CACHE_EXPIRY

\* The files after isPDFCached(pmid): a file that is too old is unlinked.
PdfAfterIsPDFCached(f, pmid, t) ==
    IF f[pmid] # Null /\ ~(t - f[pmid].mtime < PDF_CACHE_EXPIRY)
    THEN [f EXCEPT ![pmid] = Null] ELSE f

\* What fetchArticleDetails([pmid]) followed by detectOpenAccess(article)
\* gives a handler: the metadata fetch throws or finds nothing ("error"), no
\* source confirms ("closed"), or a source confirms ("open").  Neither call
\* touches the full-text store, so the two awaits are one step here.
ResolveOutcomes == {"error", "closed", "open"}

\* oaInfo of an identifier that resolved "open".
DlOaInfo(pmid) ==
    [isOpenAccess |-> TRUE, sources |-> <<"PMC">>,
     downloadUrl |-> [url |-> "pmc/articles/PMC" \o pmid \o "/pdf/"],
     pmcid |-> "PMC" \o pmid, doi |-> Null]

\* How a run of the external download tool ends: exec reports an error or
\* not (non-zero exit status, timeout, missing command); the tool has
\* created or truncated the destination file and left size bytes in it, or
\* has not touched it; advertised is the Content-Length of the document.
ToolExits ==
    {[error |-> FALSE, creates |-> TRUE, size |-> s, advertised |-> s] : s \in DocSizes}
    \cup {[error |-> e, creates |-> TRUE, size |-> 0, advertised |-> MAX_PDF_SIZE] :
             e \in BOOLEAN}
    \cup {[error |-> e, creates |-> FALSE, size |-> 0, advertised |-> MAX_PDF_SIZE] :
             e \in BOOLEAN}
    \cup {[error |-> TRUE, creates |-> TRUE, size |-> PartialSize,
           advertised |-> MAX_PDF_SIZE]}

\* The files after the tool ran for pmid.
PdfAfterTool(f, pmid, exit, t) ==
    IF exit.creates THEN [f EXCEPT ![pmid] = PdfFile(exit.size, t)] ELSE f

\* Mutant of downloadWithWgetOrCurl: the test stats.size > 0 is missing.
downloadWithWgetOrCurlAnySize(exit, f, pmid) ==
    IF exit.error THEN [success |-> FALSE, error |-> "exec error", fileSize |-> 0]
    ELSE IF f[pmid] # Null
         THEN [success |-> TRUE, error |-> "", fileSize |-> f[pmid].size]
         ELSE [success |-> FALSE, error |-> "File not found after download", fileSize |-> 0]

\* What downloadWithWgetOrCurl (and downloadWithPowerShell, which has the same
\* callback) resolves with, given how the tool ended and the files f it left.
downloadWithWgetOrCurl(exit, f, pmid) ==
    IF exit.error THEN [success |-> FALSE, error |-> "exec error", fileSize |-> 0]
    ELSE IF f[pmid] # Null
         THEN IF f[pmid].size > 0
              THEN [success |-> TRUE, error |-> "", fileSize |-> f[pmid].size]
              ELSE [success |-> FALSE, error |-> "Downloaded file is empty", fileSize |-> 0]
         ELSE [success |-> FALSE, error |-> "File not found after download", fileSize |-> 0]

\* The record smartDownloadPDF hands to updateFullTextIndex.
SmartDownloadInfo(pmid, oaInfo, size, t) ==
    [pmid |-> pmid, downloadUrl |-> oaInfo.downloadUrl, sources |-> oaInfo.sources,
     filePath |-> pmid \o ".pdf", fileSize |-> size, downloaded |-> t,
     pmcid |-> oaInfo.pmcid, doi |-> oaInfo.doi,
     downloadMethod |-> getDownloadCommand(Platform)]

\* The record downloadPDF hands to updateFullTextIndex (no downloadMethod).
DownloadPDFInfo(pmid, oaInfo, size, t) ==
    [pmid |-> pmid, downloadUrl |-> oaInfo.downloadUrl, sources |-> oaInfo.sources,
     filePath |-> pmid \o ".pdf", fileSize |-> size, downloaded |-> t,
     pmcid |-> oaInfo.pmcid, doi |-> oaInfo.doi]

\* Mutant of updateFullTextIndex: the index is written from a copy read before
\* the other records were added.
updateFullTextIndexFromStale(l, pmid, info, t) ==
    [id \in DOMAIN l |->
        IF id = pmid
        THEN [x \in DOMAIN info \cup {"cached"} |-> IF x = "cached" THEN t ELSE info[x]]
        ELSE Null]

\* Mutant of updateFullTextIndex: every record of the ledger is stamped.
updateFullTextIndexStampsAll(l, pmid, info, t) ==
    [id \in DOMAIN l |->
        IF id = pmid
        THEN [x \in DOMAIN info \cup {"cached"} |-> IF x = "cached" THEN t ELSE info[x]]
        ELSE IF l[id] = Null THEN Null ELSE [l[id] EXCEPT !.cached = t]]

\* updateFullTextIndex(pmid, info) at time t: fulltext_papers[pmid] becomes
\* {...info, cached: now}, whether or not there was a record before.
updateFullTextIndex(l, pmid, info, t) ==
    [l EXCEPT ![pmid] =
        [x \in DOMAIN info \cup {"cached"} |-> IF x = "cached" THEN t ELSE info[x]]]

\* The sum of the fileSize fields of the records of l named in S:
\* Object.values(fulltext_papers).reduce((sum, paper) => sum + (paper.fileSize || 0), 0).
RECURSIVE SumFileSizes(_, _)
SumFileSizes(l, S) ==
    IF S = {} THEN 0
    ELSE LET id == CHOOSE x \in S : TRUE IN l[id].fileSize + SumFileSizes(l, S \ {id})

\* Mutant of FulltextStats: totalSize is the size of one record, not the sum.
FulltextStatsOneSize(l) ==
    LET S == {id \in DOMAIN l : l[id] # Null} IN
    [totalPDFs |-> Cardinality(S),
     totalSize |-> IF S = {} THEN 0 ELSE l[CHOOSE x \in S : TRUE].fileSize]

\* The stats that updateFullTextIndex and the clean action write with the
\* records: totalPDFs and totalSize recomputed from fulltext_papers.
FulltextStats(l) ==
    LET S == {id \in DOMAIN l : l[id] # Null} IN
    [totalPDFs |-> Cardinality(S), totalSize |-> SumFileSizes(l, S)]

\* The stats of an index.json without records, as initFullTextMode and the
\* clear action write them.
EmptyFulltextStats == [totalPDFs |-> 0, totalSize |-> 0]

\* The files and the ledger after smartDownloadPDF's tool ended, and what
\* smartDownloadPDF returns.
SmartResult(pmid, exit) == downloadWithWgetOrCurl(exit, PdfAfterTool(pdf, pmid, exit, now), pmid)

SmartLedger(pmid, exit) ==
    LET r == SmartResult(pmid, exit) IN
    IF r.success
    THEN updateFullTextIndex(ledger, pmid,
                             SmartDownloadInfo(pmid, DlOaInfo(pmid), r.fileSize, now), now)
    ELSE ledger

IdleDl ==
    [pc |-> "idle", op |-> "none", pmid |-> "", force |-> FALSE, auto |-> FALSE,
     pmids |-> <<>>, human_like |-> TRUE, j |-> 0, outcomes |-> <<>>, list |-> <<>>, i |-> 0, wake |-> 0,
     advertised |-> 0,
     results |-> <<>>, events |-> <<>>, pre |-> <<>>, inter |-> <<>>, resp |-> Null]

DlFree(p) == dl[p].pc \in {"idle", "done"} /\ dlRuns < MaxDlRuns

\* A transfer for pmid begins: the event notes when, and whether the call is
\* not forced while a download of pmid succeeded less than PDF_CACHE_EXPIRY
\* ago and its file is still in the store.  When the transfer ends the event
\* notes when, whether the download succeeded, the error reported, the
\* Content-Length of the document (0: none seen), and whether the tool ended
\* with an error or left no file or an empty one.
BeginTransfer(rec, pmid, pc) ==
    [rec EXCEPT !.pc = pc,
                !.events = Append(@,
                    [pmid |-> pmid, start |-> now, end |-> now, done |-> FALSE,
                     success |-> FALSE, error |-> "", advertised |-> 0,
                     toolFailed |-> FALSE,
                     redundant |-> /\ ~rec.force
                                   /\ ledger[pmid] # Null
                                   /\ now - ledger[pmid].downloaded < PDF_CACHE_EXPIRY
                                   /\ isPDFCached(pdf, pmid, now)])]

EndTransfer(rec, success, error, advertised, toolFailed) ==
    [rec EXCEPT !.events[Len(rec.events)] =
        [@ EXCEPT !.end = now, !.done = TRUE, !.success = success, !.error = error,
                  !.advertised = advertised, !.toolFailed = toolFailed]]

\* Whether the tool ended with an error or the destination file is missing
\* or empty when it ended (f: the files it left).
ToolFailed(exit, f, pmid) == exit.error \/ f[pmid] = Null \/ f[pmid].size = 0

Respond(rec, resp) == [rec EXCEPT !.pc = "done", !.resp = resp]

\* The values of FULLTEXT_MODE: unset it is "disabled".
FulltextModes == {"disabled", "enabled", "auto"}

\* Mutant of FULLTEXT_ENABLED: the mode is not looked at.
FULLTEXT_ENABLED_ALWAYS == TRUE

FULLTEXT_ENABLED == FULLTEXT_MODE = "enabled" \/ FULLTEXT_MODE = "auto"

FULLTEXT_AUTO_DOWNLOAD == FULLTEXT_MODE = "auto"

\* What handleDetectFulltext, handleDownloadFulltext and handleBatchDownload
\* return when full-text mode is not enabled.
NotEnabled ==
    [success |-> FALSE,
     error |-> "Full-text mode is not enabled. Set FULLTEXT_MODE=enabled in environment variables.",
     fulltext_mode |-> FULLTEXT_MODE]

\* handleDownloadFulltext({pmid, force_download}) up to its first await.
handleDownloadFulltext(p, pmid, force) ==
    /\ DlFree(p)
    /\ dlRuns' = dlRuns + 1
    /\ LET rec == [IdleDl EXCEPT !.op = "single", !.pmid = pmid, !.force = force] IN
       IF ~FULLTEXT_ENABLED
       THEN /\ dl' = [dl EXCEPT ![p] = Respond(rec, NotEnabled)]
            /\ pdf' = pdf
       ELSE IF ~force /\ isPDFCached(pdf, pmid, now)
       THEN /\ dl' = [dl EXCEPT ![p] =
                        Respond(rec, [success |-> TRUE, status |-> "already_cached",
                                      file_size |-> pdf[pmid].size])]
            /\ pdf' = pdf
       ELSE /\ dl' = [dl EXCEPT ![p] = [rec EXCEPT !.pc = "resolve"]]
            /\ pdf' = IF force THEN pdf ELSE PdfAfterIsPDFCached(pdf, pmid, now)
    /\ UNCHANGED <<ledger, fulltextStats, batchRuns, timeVars, rateVars, cacheVars, fetchVars, oaVars, exportVars, FULLTEXT_MODE, statusResp>>

\* handleDownloadFulltext after fetchArticleDetails and detectOpenAccess: it
\* returns an error, or "No open access full-text available", or starts
\* smartDownloadPDF, which launches the download tool.
downloadFulltextResolved(p, outcome) ==
    /\ dl[p].pc = "resolve" /\ dl[p].op = "single"
    /\ dl' = [dl EXCEPT ![p] =
                IF outcome = "open" THEN BeginTransfer(@, @.pmid, "tool")
                ELSE Respond(@, [success |-> FALSE,
                                 status |-> IF outcome = "closed" THEN "no_oa" ELSE "error",
                                 file_size |-> 0])]
    /\ UNCHANGED <<pdf, ledger, fulltextStats, dlRuns, batchRuns, timeVars, rateVars, cacheVars, fetchVars, oaVars, exportVars, FULLTEXT_MODE, statusResp>>

\* The tool of smartDownloadPDF ends for a handleDownloadFulltext call: the
\* callback of exec, the update of the ledger and the handler's return.
smartDownloadPDF(p, exit) ==
    /\ dl[p].pc = "tool" /\ dl[p].op = "single"
    /\ LET pmid == dl[p].pmid
           r == SmartResult(pmid, exit)
       IN  /\ pdf' = PdfAfterTool(pdf, pmid, exit, now)
           /\ ledger' = SmartLedger(pmid, exit)
           /\ fulltextStats' = IF r.success THEN FulltextStats(SmartLedger(pmid, exit))
                               ELSE fulltextStats
           /\ dl' = [dl EXCEPT ![p] =
                        Respond(EndTransfer(@, r.success, r.error, exit.advertised,
                                            ToolFailed(exit, PdfAfterTool(pdf, pmid, exit, now), pmid)),
                                [success |-> r.success,
                                 status |-> IF r.success THEN "downloaded" ELSE "failed",
                                 file_size |-> r.fileSize])]
    /\ UNCHANGED <<dlRuns, batchRuns, timeVars, rateVars, cacheVars, fetchVars, oaVars, exportVars, FULLTEXT_MODE, statusResp>>

\* handleDetectFulltext({pmid, auto_download}) up to its first await; the
\* record keeps auto_download || FULLTEXT_AUTO_DOWNLOAD.
handleDetectFulltext(p, pmid, auto_download) ==
    /\ DlFree(p)
    /\ dlRuns' = dlRuns + 1
    /\ LET rec == [IdleDl EXCEPT !.op = "detect", !.pmid = pmid,
                                 !.auto = auto_download \/ FULLTEXT_AUTO_DOWNLOAD] IN
       dl' = [dl EXCEPT ![p] =
                IF ~FULLTEXT_ENABLED THEN Respond(rec, NotEnabled)
                ELSE [rec EXCEPT !.pc = "resolve"]]
    /\ UNCHANGED <<pdf, ledger, fulltextStats, batchRuns, timeVars, rateVars, cacheVars, fetchVars, oaVars, exportVars, FULLTEXT_MODE, statusResp>>

\* handleDetectFulltext after fetchArticleDetails and detectOpenAccess: with
\* an open article and auto-download it asks isPDFCached and either reports
\* the cached file or starts downloadPDF, which sends the HTTP request.
detectFulltextResolved(p, outcome) ==
    /\ dl[p].pc = "resolve" /\ dl[p].op = "detect"
    /\ LET pmid == dl[p].pmid
           download == outcome = "open" /\ dl[p].auto
           cached == isPDFCached(pdf, pmid, now)
       IN  /\ pdf' = IF download THEN PdfAfterIsPDFCached(pdf, pmid, now) ELSE pdf
           /\ dl' = [dl EXCEPT ![p] =
                        IF download /\ ~cached THEN BeginTransfer(@, pmid, "http")
                        ELSE IF download
                        THEN Respond(@, [success |-> TRUE, status |-> "cached",
                                         file_size |-> pdf[pmid].size])
                        ELSE Respond(@, [success |-> outcome # "error",
                                         status |-> IF outcome = "error" THEN "error"
                                                    ELSE "detected",
                                         file_size |-> 0])]
    /\ UNCHANGED <<ledger, fulltextStats, dlRuns, batchRuns, timeVars, rateVars, cacheVars, fetchVars, oaVars, exportVars, FULLTEXT_MODE, statusResp>>

\* The content-length values downloadPDF may see: 0 stands for no header.
ContentLengths == {0} \cup DocSizes

\* downloadPDF when the response headers arrive: a status that is not ok and
\* a content-length above MAX_PDF_SIZE both end the download before the body
\* is read.
downloadPDFResponse(p, ok, contentLength) ==
    /\ dl[p].pc = "http"
    /\ LET pmid == dl[p].pmid
           error == IF ~ok THEN "HTTP error"
                    ELSE IF contentLength > MAX_PDF_SIZE THEN "PDF too large" ELSE ""
       IN  /\ dl' = [dl EXCEPT ![p] =
                        IF error = "" THEN [@ EXCEPT !.pc = "body", !.advertised = contentLength]
                        ELSE Respond(EndTransfer(@, FALSE, error,
                                                 IF ok THEN contentLength ELSE 0, FALSE),
                                     [success |-> FALSE, status |-> "failed", file_size |-> 0])]
    /\ UNCHANGED <<pdf, ledger, fulltextStats, dlRuns, batchRuns, timeVars, rateVars, cacheVars, fetchVars, oaVars, exportVars, FULLTEXT_MODE, statusResp>>

\* downloadPDF when the body has arrived (size bytes): a buffer above
\* MAX_PDF_SIZE is refused; any other is written and entered in the ledger.
downloadPDFBody(p, size) ==
    /\ dl[p].pc = "body"
    /\ dl[p].advertised # 0 => size = dl[p].advertised
    /\ LET pmid == dl[p].pmid
           ok == ~(size > MAX_PDF_SIZE)
       IN  /\ pdf' = IF ok THEN [pdf EXCEPT ![pmid] = PdfFile(size, now)] ELSE pdf
           /\ ledger' = IF ok
                        THEN updateFullTextIndex(ledger, pmid,
                                 DownloadPDFInfo(pmid, DlOaInfo(pmid), size, now), now)
                        ELSE ledger
           /\ fulltextStats' =
                 IF ok
                 THEN FulltextStats(updateFullTextIndex(ledger, pmid,
                          DownloadPDFInfo(pmid, DlOaInfo(pmid), size, now), now))
                 ELSE fulltextStats
           /\ dl' = [dl EXCEPT ![p] =
                        Respond(EndTransfer(@, ok, IF ok THEN "" ELSE "PDF too large",
                                            @.advertised, FALSE),
                                [success |-> ok,
                                 status |-> IF ok THEN "downloaded" ELSE "failed",
                                 file_size |-> IF ok THEN size ELSE 0])]
    /\ UNCHANGED <<dlRuns, batchRuns, timeVars, rateVars, cacheVars, fetchVars, oaVars, exportVars, FULLTEXT_MODE, statusResp>>

\* The most identifiers handleBatchDownload accepts.
MaxBatchDownload == 10

\* The lists of identifiers handleBatchDownload is called with: the short
\* ones and one that is one identifier above the limit.
BatchLists == IdLists \cup {LongList(MaxBatchDownload + 1)}


\* Mutant of BatchItem: the list is worked through from its end.
BatchItemReversed(list, i) == list[Len(list) + 1 - i]

\* downloadList[i] of batchDownloadPDFs (i counted from 1).
BatchItem(list, i) == list[i]

\* Mutant of BatchContinues: a failed item ends the batch.
BatchStopsOnFailure(result, i, n) == result.success /\ i < n

\* Whether batchDownloadPDFs has another item after item i of n; the result
\* of item i plays no part.
BatchContinues(result, i, n) == i < n

\* Mutant of TimerFired: the callback does not wait for the timer.
TimerFiredAtOnce(t, wake) == TRUE

\* Whether the callback of a setTimeout due at wake can run at time t.
TimerFired(t, wake) == t >= wake

\* What handleBatchDownload answers once batchDownloadPDFs returned results.
BatchResponse(rec, results) ==
    [success |-> TRUE,
     total_requested |-> Len(rec.pmids),
     available_for_download |-> Len(rec.list),
     successful_downloads |-> Cardinality({k \in 1..Len(results) : results[k].result.success}),
     failed_downloads |-> Cardinality({k \in 1..Len(results) : ~results[k].result.success}),
     human_like_mode |-> rec.human_like]

\* handleBatchDownload({pmids, human_like = true}) up to its first await.
\* human_like is kept for the answer (human_like_mode) and read nowhere else:
\* batchDownloadPDFs is called with the download list alone.
handleBatchDownload(p, pmids, human_like) ==
    /\ DlFree(p)
    /\ batchRuns < MaxBatchRuns
    /\ dlRuns' = dlRuns + 1
    /\ batchRuns' = batchRuns + 1
    /\ LET rec == [IdleDl EXCEPT !.op = "batch", !.pmids = pmids,
                                  !.human_like = human_like] IN
       dl' = [dl EXCEPT ![p] =
                IF ~FULLTEXT_ENABLED THEN Respond(rec, NotEnabled)
                ELSE IF TooMany(pmids, MaxBatchDownload)
                THEN Respond(rec, [success |-> FALSE,
                                   error |-> "Maximum 10 PMIDs allowed for batch download"])
                ELSE IF pmids = <<>>
                THEN Respond(rec, [success |-> TRUE, total_requested |-> 0,
                                   available_for_download |-> 0])
                ELSE [rec EXCEPT !.pc = "resolve", !.j = 1]]
    /\ UNCHANGED <<pdf, ledger, fulltextStats, timeVars, rateVars, cacheVars, fetchVars, oaVars, exportVars, FULLTEXT_MODE, statusResp>>

\* Mutant of DownloadListAfter: the test of oaInfo.isOpenAccess is missing.
DownloadListAfterAny(list, pmid, outcome) == Append(list, pmid)

\* downloadList after the resolution of pmid: only an identifier whose
\* oaInfo.isOpenAccess is true is pushed (one whose article list came back
\* empty is passed over like one that is not open).
DownloadListAfter(list, pmid, outcome) ==
    IF outcome = "open" THEN Append(list, pmid) ELSE list

\* handleBatchDownload after fetchArticleDetails and detectOpenAccess of
\* pmids[j]: an open identifier joins the download list.  After the last one
\* the handler answers if the list is empty, and otherwise enters
\* batchDownloadPDFs, which starts the delay before its first item.
batchDownloadResolved(p, outcome, delay) ==
    /\ dl[p].pc = "resolve" /\ dl[p].op = "batch"
    /\ LET rec == [dl[p] EXCEPT !.outcomes = Append(@, outcome)]
           list == DownloadListAfter(rec.list, rec.pmids[rec.j], outcome)
       IN  dl' = [dl EXCEPT ![p] =
                    IF outcome = "error"
                    THEN Respond(rec, [success |-> FALSE, status |-> "error"])
                    ELSE IF rec.j < Len(rec.pmids)
                    THEN [rec EXCEPT !.j = @ + 1, !.list = list]
                    ELSE IF list = <<>>
                    THEN Respond(rec, [success |-> TRUE,
                                       total_requested |-> Len(rec.pmids),
                                       available_for_download |-> 0])
                    ELSE [rec EXCEPT !.list = list, !.pc = "pre", !.i = 1,
                                     !.wake = now + delay, !.pre = <<delay>>]]
    /\ UNCHANGED <<pdf, ledger, fulltextStats, dlRuns, batchRuns, timeVars, rateVars, cacheVars, fetchVars, oaVars, exportVars, FULLTEXT_MODE, statusResp>>

\* batchDownloadPDFs when the delay before item i is over: smartDownloadPDF
\* launches the download tool for the item.
batchDownloadPDFsItem(p) ==
    /\ dl[p].pc = "pre"
    /\ TimerFired(now, dl[p].wake)
    /\ dl' = [dl EXCEPT ![p] = BeginTransfer(@, BatchItem(@.list, @.i), "tool")]
    /\ UNCHANGED <<pdf, ledger, fulltextStats, dlRuns, batchRuns, timeVars, rateVars, cacheVars, fetchVars, oaVars, exportVars, FULLTEXT_MODE, statusResp>>

\* The tool ends for item i of a batch: the callback of exec, the update of
\* the ledger, results.push, and then either the interval before the next
\* item or the return of batchDownloadPDFs and the handler's answer.
batchDownloadPDFsResult(p, exit, interval) ==
    /\ dl[p].pc = "tool" /\ dl[p].op = "batch"
    /\ LET rec == dl[p]
           pmid == BatchItem(rec.list, rec.i)
           r == SmartResult(pmid, exit)
           results == Append(rec.results, [pmid |-> pmid, result |-> r])
           ended == [EndTransfer(rec, r.success, r.error, exit.advertised,
                                 ToolFailed(exit, PdfAfterTool(pdf, pmid, exit, now), pmid))
                        EXCEPT !.results = results]
       IN  /\ pdf' = PdfAfterTool(pdf, pmid, exit, now)
           /\ ledger' = SmartLedger(pmid, exit)
           /\ fulltextStats' = IF r.success THEN FulltextStats(SmartLedger(pmid, exit))
                               ELSE fulltextStats
           /\ dl' = [dl EXCEPT ![p] =
                        IF BatchContinues(r, rec.i, Len(rec.list))
                        THEN [ended EXCEPT !.pc = "inter", !.wake = now + interval,
                                           !.inter = Append(@, interval)]
                        ELSE Respond(ended, BatchResponse(rec, results))]
    /\ UNCHANGED <<dlRuns, batchRuns, timeVars, rateVars, cacheVars, fetchVars, oaVars, exportVars, FULLTEXT_MODE, statusResp>>

\* batchDownloadPDFs when the interval after item i is over: the loop goes
\* to item i + 1 and starts the delay before it.
batchDownloadPDFsNext(p, delay) ==
    /\ dl[p].pc = "inter"
    /\ TimerFired(now, dl[p].wake)
    /\ dl' = [dl EXCEPT ![p] = [@ EXCEPT !.pc = "pre", !.i = @ + 1, !.wake = now + delay,
                                         !.pre = Append(@, delay)]]
    /\ UNCHANGED <<pdf, ledger, fulltextStats, dlRuns, batchRuns, timeVars, rateVars, cacheVars, fetchVars, oaVars, exportVars, FULLTEXT_MODE, statusResp>>

\* The identifiers handleFulltextStatus({action: "clean"}) removes: those with
\* a record whose file exists and is older than PDF_CACHE_EXPIRY.
CleanExpired(l, f, t) ==
    {id \in DOMAIN l : l[id] # Null /\ f[id] # Null /\ t - f[id].mtime > PDF_CACHE_EXPIRY}

\* What handleFulltextStatus returns when full-text mode is not enabled.
StatusNotEnabled ==
    [success |-> FALSE, error |-> "Full-text mode is not enabled",
     fulltext_mode |-> FULLTEXT_MODE]

\* handleFulltextStatus({action: "clean"}).
handleFulltextStatusClean ==
    /\ LET gone == IF FULLTEXT_ENABLED THEN CleanExpired(ledger, pdf, now) ELSE {} IN
       /\ pdf' = [id \in DOMAIN pdf |-> IF id \in gone THEN Null ELSE pdf[id]]
       /\ ledger' = [id \in DOMAIN ledger |-> IF id \in gone THEN Null ELSE ledger[id]]
       /\ fulltextStats' =
             IF gone # {}
             THEN FulltextStats([id \in DOMAIN ledger |-> IF id \in gone THEN Null ELSE ledger[id]])
             ELSE fulltextStats
    /\ statusResp' = IF FULLTEXT_ENABLED THEN [success |-> TRUE, action |-> "clean"]
                     ELSE StatusNotEnabled
    /\ UNCHANGED <<dl, dlRuns, batchRuns, timeVars, rateVars, cacheVars, fetchVars, oaVars, exportVars, FULLTEXT_MODE>>

\* handleFulltextStatus({action: "clear"}): every PDF is unlinked and the
\* ledger is reset.
handleFulltextStatusClear ==
    /\ pdf' = IF FULLTEXT_ENABLED THEN [id \in DOMAIN pdf |-> Null] ELSE pdf
    /\ ledger' = IF FULLTEXT_ENABLED THEN [id \in DOMAIN ledger |-> Null] ELSE ledger
    /\ fulltextStats' = IF FULLTEXT_ENABLED THEN EmptyFulltextStats ELSE fulltextStats
    /\ statusResp' = IF FULLTEXT_ENABLED THEN [success |-> TRUE, action |-> "clear"]
                     ELSE StatusNotEnabled
    /\ UNCHANGED <<dl, dlRuns, batchRuns, timeVars, rateVars, cacheVars, fetchVars, oaVars, exportVars, FULLTEXT_MODE>>

\* The timers of the batches that are still running.
DlWakes == {dl[p].wake : p \in {q \in Procs : dl[q].pc \in {"pre", "inter"}}}

\* The clock reaches the next timer that is due.
DlTickToTimer ==
    /\ \E w \in DlWakes : w > now
    /\ now' = CHOOSE w \in DlWakes : w > now /\ \A v \in DlWakes : v > now => w <= v
    /\ UNCHANGED <<ticks, pdf, ledger, fulltextStats, dl, dlRuns, batchRuns, rateVars, cacheVars, fetchVars, oaVars, exportVars, FULLTEXT_MODE, statusResp>>

\* The store is left alone for exactly PDF_CACHE_EXPIRY, or a little longer.
DlTickSteps == {PDF_CACHE_EXPIRY, PDF_CACHE_EXPIRY + 1}

\* Time passes otherwise (a timer that is due meanwhile runs late).  The
\* clock of the model goes beyond one expiry period once.
DlTick(d) ==
    /\ ticks < MaxTicks
    /\ now - BootTime < PDF_CACHE_EXPIRY
    /\ now' = now + d
    /\ ticks' = ticks + 1
    /\ UNCHANGED <<pdf, ledger, fulltextStats, dl, dlRuns, batchRuns, rateVars, cacheVars, fetchVars, oaVars, exportVars, FULLTEXT_MODE, statusResp>>

-----------------------------------------------------------------------------
(* Initial state: the state the constructor leaves *)

TimeInit == now = BootTime /\ ticks = 0

RateInit ==
    /\ lastRequestTime = 0
    /\ rlPc = [c \in Callers |-> "idle"]
    /\ rlWake = [c \in Callers |-> 0]
    /\ rlStart = [c \in Callers |-> 0]
    /\ rlDispatch = [c \in Callers |-> 0]

CacheInit ==
    /\ cache = <<>>
    /\ cacheStats = ZeroStats
    /\ evictedLog = ""
    /\ cacheOp = OpRecord("init", "", Null)
    /\ born = [x \in CacheKeyDomain |-> 0]
    /\ bornNext = 1
    /\ written = [x \in CacheKeyDomain |-> Null]
    /\ lost = [x \in CacheKeyDomain |-> FALSE]
    /\ ops = 0

\* The files of cache/papers that an earlier run of the server left, written
\* at time 0, and the index that lists them.
OldArticle(id) == [pmid |-> id, title |-> 1]

FetchInit ==
    /\ \E old \in SUBSET Pmids :
          /\ files = [id \in Pmids |-> IF id \in old THEN PaperFile(OldArticle(id), 0) ELSE Null]
          /\ indexPapers = old
          /\ totalPapers = Cardinality(old)
    /\ proc = [p \in Procs |-> IdleProc]
    /\ runs = 0
    /\ stored = [id \in Pmids |-> Null]
    /\ fault = "none"
    /\ cleanResp = [cleaned |-> 0, seq |-> 0]

NoFetchInit ==
    /\ files = [id \in Pmids |-> Null]
    /\ indexPapers = {}
    /\ totalPapers = 0
    /\ proc = [p \in Procs |-> IdleProc]
    /\ runs = 0
    /\ stored = [id \in Pmids |-> Null]
    /\ fault = "none"
    /\ cleanResp = [cleaned |-> 0, seq |-> 0]

OaInit == oa = IdleOa

\* initEndNoteMode on a fresh installation: an empty cache/endnote directory
\* and an index.json without records.
ExportInit ==
    /\ endnoteFiles = [id \in Pmids |-> Null]
    /\ endnoteIndex = [id \in Pmids |-> Null]

\* initFullTextMode on a fresh installation: an empty cache/fulltext
\* directory and an index.json without records.
DlInit ==
    /\ pdf = [id \in Pmids |-> Null]
    /\ ledger = [id \in Pmids |-> Null]
    /\ fulltextStats = EmptyFulltextStats
    /\ dl = [p \in Procs |-> IdleDl]
    /\ dlRuns = 0
    /\ batchRuns = 0
    /\ FULLTEXT_MODE \in FulltextModes
    /\ statusResp = Null

\* The server started with full-text mode enabled.  (Mode auto differs from it
\* only in that every handleDetectFulltext call downloads, which is what the
\* call does under enabled with auto_download; in any other mode the
\* full-text handlers do nothing.)
Init ==
    /\ TimeInit /\ RateInit /\ CacheInit /\ NoFetchInit /\ OaInit /\ DlInit /\ ExportInit
    /\ FULLTEXT_MODE = "enabled"

InitFetch ==
    /\ TimeInit /\ RateInit /\ CacheInit /\ FetchInit /\ OaInit /\ DlInit /\ ExportInit
    /\ FULLTEXT_MODE = "enabled"

-----------------------------------------------------------------------------
(* Specifications *)

RateNext ==
    \/ \E c \in Callers : enforceRateLimit(c)
    \/ \E c \in Callers : enforceRateLimitResume(c)
    \/ \E d \in RateTickSteps : RateTick(d)

SpecRate == Init /\ [][RateNext]_vars

\* Calls of enforceRateLimit start during the first MaxRateRounds delays after
\* boot; the timers of the calls that wait are never held back.
MaxRateRounds == 3
RateHorizon == BootTime + MaxRateRounds * RATE_LIMIT_DELAY

RateFairNext ==
    \/ \E c \in Callers : now < RateHorizon /\ enforceRateLimit(c)
    \/ \E c \in Callers : enforceRateLimitResume(c)
    \/ \E d \in RateTickSteps : RateTick(d)
    \/ TimerDue

\* Node's timers: a setTimeout that was set comes due, and its callback runs.
SpecRateFair ==
    /\ Init
    /\ [][RateFairNext]_vars
    /\ WF_vars(TimerDue)
    /\ \A c \in Callers : WF_vars(enforceRateLimitResume(c))

CacheNext ==
    \/ \E k \in ProbeKeys, v \in Values : CacheSet(k, v)
    \/ \E k \in ProbeKeys : CacheGet(k)
    \/ CacheClean
    \/ CacheClear
    \/ CacheWarm
    \/ \E d \in CacheTickSteps : CacheTick(d)

SpecCache == Init /\ [][CacheNext]_vars

FetchNext ==
    \/ \E p \in Procs, key \in SearchKeys : searchPubMed(p, key)
    \/ \E p \in Procs, ids \in IdLists : fetchArticleDetails(p, ids)
    \/ \E p \in Procs : RateLimitResume(p)
    \/ \E p \in Procs, ok \in BOOLEAN, ids \in IdLists : SearchResponse(p, ok, ids)
    \/ \E p \in Procs, ok \in BOOLEAN, resolved \in SUBSET Pmids, v \in 1..NumValues :
          SummaryResponse(p, ok, resolved, v)
    \/ FetchCacheClear
    \/ \E d \in FetchTickSteps : FetchTick(d)

SpecFetch == InitFetch /\ [][FetchNext]_vars

\* The metadata calls of one run on a disk that can fail.
MaxPaperCalls == 1

\* The record cache on a disk that can fail: a metadata call (the first of the
\* process, which enforceRateLimit lets through at once), the clean of the
\* cache, damage to files and faults of the disk.
PapersNext ==
    \/ \E p \in Procs, pmids \in IdLists \ {<<>>} :
          runs < MaxPaperCalls /\ handleBatchQuery(p, pmids)
    \/ \E p \in Procs, ok \in BOOLEAN, resolved \in SUBSET Pmids :
          SummaryResponse(p, ok, resolved, 1)
    \/ handleCacheInfoCleanFiles
    \/ \E id \in Pmids : FileCorrupted(id)
    \/ \E flt \in Faults : FaultOccurs(flt)
    \/ \E d \in {PAPER_CACHE_EXPIRY} : FetchTick(d)

SpecPapers == InitFetch /\ [][PapersNext]_vars

OaNext ==
    \/ \E article \in OaArticles, world \in OaWorlds : detectOpenAccess(article, world)
    \/ checkPMCContent
    \/ checkUnpaywall
    \/ checkPublisherOA

SpecOA == Init /\ [][OaNext]_vars

DownloadNext ==
    \/ \E p \in Procs, pmid \in Pmids, force \in BOOLEAN : handleDownloadFulltext(p, pmid, force)
    \/ \E p \in Procs, outcome \in ResolveOutcomes : downloadFulltextResolved(p, outcome)
    \/ \E p \in Procs, exit \in ToolExits : smartDownloadPDF(p, exit)
    \/ \E p \in Procs, pmid \in Pmids, auto \in BOOLEAN : handleDetectFulltext(p, pmid, auto)
    \/ \E p \in Procs, outcome \in ResolveOutcomes : detectFulltextResolved(p, outcome)
    \/ \E p \in Procs, ok \in BOOLEAN, contentLength \in ContentLengths :
          downloadPDFResponse(p, ok, contentLength)
    \/ \E p \in Procs, size \in ContentLengths : downloadPDFBody(p, size)
    \/ handleFulltextStatusClean
    \/ handleFulltextStatusClear
    \/ \E d \in DlTickSteps : DlTick(d)

SpecDownload == Init /\ [][DownloadNext]_vars

BatchNext ==
    \/ \E p \in Procs, pmid \in Pmids, force \in BOOLEAN : handleDownloadFulltext(p, pmid, force)
    \/ \E p \in Procs, outcome \in ResolveOutcomes : downloadFulltextResolved(p, outcome)
    \/ \E p \in Procs, exit \in ToolExits : smartDownloadPDF(p, exit)
    \/ \E p \in Procs, pmids \in BatchLists : handleBatchDownload(p, pmids, TRUE)
    \/ \E p \in Procs, outcome \in ResolveOutcomes, delay \in PreDelays :
          batchDownloadResolved(p, outcome, delay)
    \/ \E p \in Procs : batchDownloadPDFsItem(p)
    \/ \E p \in Procs, exit \in ToolExits, interval \in InterDelays :
          batchDownloadPDFsResult(p, exit, interval)
    \/ \E p \in Procs, delay \in PreDelays : batchDownloadPDFsNext(p, delay)
    \/ DlTickToTimer

SpecBatch == Init /\ [][BatchNext]_vars

\* The tool calls of one run of the tools below, of whatever tool.
MaxToolCalls == 2

Budget == runs + dlRuns < MaxToolCalls

\* The lists the tools below are called with: a short one and one that is one
\* identifier above the tool's limit.
ShortAndLong(cap) == {<<"1", "2">>, LongList(cap + 1)}

\* The request handler of CallToolRequestSchema with the tools that take a
\* list of identifiers or send requests to the upstream API, called in any
\* order and side by side.  The batch download is called here only with the
\* lists it answers at once (none, and one identifier above its limit); what
\* it does with the others is SpecBatch.
ToolsNext ==
    \/ \E p \in Procs, key \in SearchKeys : Budget /\ searchPubMed(p, key)
    \/ \E p \in Procs, pmids \in ShortAndLong(MaxDetails), include_full_text \in BOOLEAN :
          Budget /\ handleGetDetails(p, pmids, include_full_text)
    \/ \E p \in Procs, pmids \in ShortAndLong(MaxDetails) :
          Budget /\ handleBatchQuery(p, pmids)
    \/ \E p \in Procs : RateLimitResume(p)
    \/ \E p \in Procs, ok \in BOOLEAN, ids \in {<<>>, <<"1">>} : SearchResponse(p, ok, ids)
    \/ \E p \in Procs, ok \in BOOLEAN, resolved \in SUBSET Pmids, v \in 1..NumValues :
          SummaryResponse(p, ok, resolved, v)
    \/ \E p \in Procs, ok \in BOOLEAN : AbstractResponse(p, ok)
    \/ \E p \in Procs, pmids \in {<<>>, LongList(MaxBatchDownload + 1)} :
          Budget /\ handleBatchDownload(p, pmids, TRUE)
    \/ \E d \in {RATE_LIMIT_DELAY} : FetchTick(d)

SpecTools == Init /\ [][ToolsNext]_vars

\* The documents and the ledger that an earlier run of the server with
\* full-text mode enabled left in cache/fulltext, downloaded at time 0.
OldDocument(pmid) ==
    [x \in DOMAIN SmartDownloadInfo(pmid, DlOaInfo(pmid), PartialSize, 0) \cup {"cached"} |->
        IF x = "cached" THEN 0 ELSE SmartDownloadInfo(pmid, DlOaInfo(pmid), PartialSize, 0)[x]]

\* The server started with full-text mode off, which is the default.
InitDisabled ==
    /\ TimeInit /\ RateInit /\ CacheInit /\ NoFetchInit /\ OaInit /\ ExportInit
    /\ \E old \in SUBSET Pmids :
          /\ pdf = [id \in Pmids |-> IF id \in old THEN PdfFile(PartialSize, 0) ELSE Null]
          /\ ledger = [id \in Pmids |-> IF id \in old THEN OldDocument(id) ELSE Null]
          /\ fulltextStats = [totalPDFs |-> Cardinality(old),
                              totalSize |-> Cardinality(old) * PartialSize]
    /\ dl = [p \in Procs |-> IdleDl]
    /\ dlRuns = 0
    /\ batchRuns = 0
    /\ FULLTEXT_MODE = "disabled"
    /\ statusResp = Null

\* The full-text tools in that mode.  None of their calls gets beyond its
\* first statement, so the steps that follow an await are never enabled.
DisabledNext ==
    \/ \E p \in Procs, pmid \in Pmids, auto_download \in BOOLEAN :
          handleDetectFulltext(p, pmid, auto_download)
    \/ \E p \in Procs, pmid \in Pmids, force \in BOOLEAN : handleDownloadFulltext(p, pmid, force)
    \/ \E p \in Procs, pmids \in BatchLists, human_like \in BOOLEAN :
          handleBatchDownload(p, pmids, human_like)
    \/ handleFulltextStatusClean
    \/ handleFulltextStatusClear

SpecDisabled == InitDisabled /\ [][DisabledNext]_vars

\* pubmed_batch_download with and without human_like, on lists of two
\* identifiers, up to the answer.
HumanLikeNext ==
    \/ \E p \in Procs, pmids \in {x \in IdLists : Len(x) = 2}, human_like \in BOOLEAN :
          handleBatchDownload(p, pmids, human_like)
    \/ \E p \in Procs, outcome \in ResolveOutcomes, delay \in PreDelays :
          batchDownloadResolved(p, outcome, delay)
    \/ \E p \in Procs : batchDownloadPDFsItem(p)
    \/ \E p \in Procs, exit \in ToolExits, interval \in InterDelays :
          batchDownloadPDFsResult(p, exit, interval)
    \/ \E p \in Procs, delay \in PreDelays : batchDownloadPDFsNext(p, delay)
    \/ DlTickToTimer

SpecHumanLike == Init /\ [][HumanLikeNext]_vars

\* Searches, one after another or overlapping, and the export of what they
\* return.
ExportNext ==
    \/ \E p \in Procs, key \in SearchKeys : searchPubMed(p, key)
    \/ \E p \in Procs : RateLimitResume(p)
    \/ \E p \in Procs, ok \in BOOLEAN, ids \in IdLists : SearchResponse(p, ok, ids)
    \/ \E p \in Procs, ok \in BOOLEAN, resolved \in SUBSET Pmids, v \in 1..NumValues :
          SummaryResponse(p, ok, resolved, v)
    \/ \E d \in FetchTickSteps : FetchTick(d)

SpecExport == Init /\ [][ExportNext]_vars

\* Two tool calls that write a ledger, overlapping or not: downloads, which
\* write the full-text index, and batch queries, which write the record index.
LedgersNext ==
    \/ \E p \in Procs, pmid \in Pmids, force \in BOOLEAN :
          Budget /\ handleDownloadFulltext(p, pmid, force)
    \/ \E p \in Procs, outcome \in ResolveOutcomes : downloadFulltextResolved(p, outcome)
    \/ \E p \in Procs, exit \in ToolExits : smartDownloadPDF(p, exit)
    \/ \E p \in Procs, pmids \in {<<"1">>, <<"2">>} : Budget /\ handleBatchQuery(p, pmids)
    \/ \E p \in Procs : RateLimitResume(p)
    \/ \E p \in Procs, ok \in BOOLEAN, resolved \in SUBSET Pmids :
          SummaryResponse(p, ok, resolved, 1)
    \/ \E d \in {RATE_LIMIT_DELAY} : FetchTick(d)

SpecLedgers == Init /\ [][LedgersNext]_vars

\* The runs of the download tool that leave a document, and one that fails.
CounterExits ==
    {exit \in ToolExits : ~exit.error /\ exit.creates /\ exit.size > 0}
    \cup {[error |-> TRUE, creates |-> TRUE, size |-> PartialSize, advertised |-> MAX_PDF_SIZE]}

\* Every operation that writes one of the two ledgers, on an installation
\* that already holds record files: the batch query stores records, both
\* download paths store documents, the three maintenance actions remove
\* entries, the disk may fail, and time passes beyond both expiry periods.
CountersNext ==
    \/ \E p \in Procs, pmid \in Pmids : Budget /\ handleDownloadFulltext(p, pmid, TRUE)
    \/ \E p \in Procs : downloadFulltextResolved(p, "open")
    \/ \E p \in Procs, exit \in CounterExits : smartDownloadPDF(p, exit)
    \/ \E p \in Procs, pmid \in {"2"} : Budget /\ handleDetectFulltext(p, pmid, TRUE)
    \/ \E p \in Procs : detectFulltextResolved(p, "open")
    \/ \E p \in Procs, contentLength \in {0, MAX_PDF_SIZE} :
          downloadPDFResponse(p, TRUE, contentLength)
    \/ \E p \in Procs, size \in DocSizes : downloadPDFBody(p, size)
    \/ handleFulltextStatusClean
    \/ handleFulltextStatusClear
    \/ \E p \in Procs, pmids \in {<<"1">>, <<"1", "2">>} : Budget /\ handleBatchQuery(p, pmids)
    \/ \E p \in Procs, resolved \in {Pmids} : SummaryResponse(p, TRUE, resolved, 1)
    \/ handleCacheInfoCleanFiles
    \/ \E flt \in {"index_corrupt"} : FaultOccurs(flt)
    \/ \E d \in {PDF_CACHE_EXPIRY + 1} : DlTick(d)

SpecCounters == InitFetch /\ [][CountersNext]_vars

-----------------------------------------------------------------------------
(* Claims *)

\* C1: the dispatch times recorded by any two calls of enforceRateLimit differ
\* by at least RATE_LIMIT_DELAY, however the calls interleave.
C1_DispatchSpacing ==
    \A c, d \in Callers :
        (c # d /\ rlPc[c] = "done" /\ rlPc[d] = "done")
            => \/ rlDispatch[c] - rlDispatch[d] >= RATE_LIMIT_DELAY
               \/ rlDispatch[d] - rlDispatch[c] >= RATE_LIMIT_DELAY

\* C2: getFromCache(k) after setCache(k, v) returns v while less than
\* cacheTimeout has passed and k's entry was not removed in between; once
\* cacheTimeout has passed it returns null and k is no longer in the Map.
C2_SetThenGet ==
    (cacheOp.name = "get" /\ written[cacheOp.key] # Null) =>
        LET k == cacheOp.key
            w == written[cacheOp.key]
        IN  /\ (now - w.timestamp < cacheTimeout /\ ~lost[k]) => cacheOp.ret = w.data
            /\ now - w.timestamp >= cacheTimeout => (cacheOp.ret = Null /\ ~MapHas(cache, k))

\* C2 witness: a get that hit earlier, and now a get of a key set cacheTimeout ago.
C2_Witness ==
    /\ cacheOp.name = "get"
    /\ cacheStats.hits >= 1
    /\ written[cacheOp.key] # Null
    /\ now - written[cacheOp.key].timestamp = cacheTimeout
    /\ cacheOp.ret = Null

SummaryReqs(rec) == SelectSeq(rec.reqs, LAMBDA r : r.kind = "esummary")

\* C4 as stated: a search that starts less than cacheTimeout after a search
\* with the same signature returned successfully is served from the Map and
\* sends no upstream request.
C4_SecondSearchCached ==
    \A p \in Procs :
        (proc[p].op = "search" /\ proc[p].prior) =>
            (proc[p].pc = "done" /\ proc[p].reqs = <<>>)

\* C4 amended: a search that starts less than cacheTimeout after a search with
\* the same signature stored its result (it found at least one id), the entry
\* not removed since, returns the stored result and sends no upstream request.
C4_StoredSearchCached ==
    \A p \in Procs :
        (proc[p].op = "search" /\ proc[p].priorStored) =>
            /\ proc[p].pc = "done"
            /\ proc[p].reqs = <<>>
            /\ proc[p].result = proc[p].storedResult

\* C4 witness: the second call is a search served from the Map after a search
\* that fetched one article from the upstream.
C4_Witness ==
    \E p \in Procs :
        /\ runs = 2
        /\ proc[p].op = "search" /\ proc[p].priorStored
        /\ proc[p].pc = "done" /\ proc[p].reqs = <<>>
        /\ proc[p].result.total = 1
        /\ \E q \in Procs : q # p /\ proc[q].setKey /\ Len(proc[q].reqs) = 2

\* C5: a file older than PAPER_CACHE_EXPIRY when fetchArticleDetails reads it
\* is not among the cached articles; the read unlinks it (a file found later
\* was written after the call started); its id is among uncachedIds and is in
\* the esummary request once the request is sent.
C5_ExpiredNeverServed ==
    \A p \in Procs : \A id \in proc[p].stale :
        /\ \A i \in 1..Len(proc[p].cached) : proc[p].cached[i].pmid # id
        /\ files[id] = Null \/ files[id].timestamp >= proc[p].start
        /\ id \in Range(proc[p].uncached)
        /\ proc[p].pc # "d_wait" =>
              \E i \in 1..Len(proc[p].reqs) :
                  proc[p].reqs[i].kind = "esummary" /\ id \in Range(proc[p].reqs[i].ids)

\* C5 witness: a call found a file beyond PAPER_CACHE_EXPIRY, fetched the id
\* from the upstream and returned.
C5_Witness ==
    \E p \in Procs :
        /\ proc[p].stale = {"1"}
        /\ proc[p].pc = "done"
        /\ Len(SummaryReqs(proc[p])) = 1
        /\ files["1"] # Null /\ files["1"].timestamp = proc[p].end

\* C6: no esummary request names an id whose file was live; a call sends at
\* most one esummary request, and once it is past the rate limiter exactly one
\* that names exactly the other ids, or none when every id was live; a call
\* that returns gives the held payload for each live id.
C6_CachedNeverRequested ==
    \A p \in Procs :
        LET rec == proc[p]
            sums == SummaryReqs(rec)
            rest == Range(rec.ids) \ rec.live
        IN  /\ \A i \in 1..Len(sums) : Range(sums[i].ids) \cap rec.live = {}
            /\ Len(sums) <= 1
            /\ (rec.ids # <<>> /\ rec.pc \in {"d_fetch", "done", "failed"}) =>
                  IF rest = {} THEN sums = <<>> /\ rec.pc = "done"
                  ELSE Len(sums) = 1 /\ Range(sums[1].ids) = rest
            /\ (rec.ids # <<>> /\ rec.pc = "done") =>
                  \A i \in 1..Len(rec.ids) :
                      rec.ids[i] \in rec.live => Articles(rec)[i] = rec.held[rec.ids[i]]

\* C6 witness: a call for two ids, one with a live file, returned after one
\* esummary request for the other id alone; and a call whose ids were all live.
C6_Witness ==
    \E p, q \in Procs :
        /\ proc[p].pc = "done" /\ Len(proc[p].ids) = 2 /\ Cardinality(proc[p].live) = 1
        /\ Len(SummaryReqs(proc[p])) = 1 /\ Len(SummaryReqs(proc[p])[1].ids) = 1
        /\ proc[q].pc = "done" /\ proc[q].ids # <<>> /\ Range(proc[q].ids) = proc[q].live
        /\ proc[q].reqs = <<>>

C8_OrderAndAbsent ==
    \A p \in Procs :
        LET rec == proc[p] IN
        /\ (rec.unresolved # {} /\ ~rec.httpFail) => rec.pc # "failed"
        /\ (rec.ids # <<>> /\ rec.pc = "done") =>
              /\ Len(Articles(rec)) = Len(rec.ids)
              /\ \A i \in 1..Len(rec.ids) :
                    IF rec.ids[i] \in rec.unresolved
                    THEN Articles(rec)[i] = Null
                    ELSE Articles(rec)[i] # Null /\ Articles(rec)[i].pmid = rec.ids[i]

\* C9: the step in which the upstream's answer is not ok ends the call as
\* failed with an error and no result, and leaves the files, the index and the
\* Map as they were.
C9_UpstreamFailureIsFatal ==
    [][ \A p \in Procs :
          (~proc[p].httpFail /\ proc'[p].httpFail) =>
              /\ proc'[p].pc = "failed"
              /\ proc'[p].err # ""
              /\ proc'[p].result = Null
              /\ files' = files
              /\ indexPapers' = indexPapers
              /\ cache' = cache
      ]_vars

\* C9 witness: a details call with one live and one uncached id failed on an
\* esummary answer that was not ok, and a search failed on its esearch answer.
C9_Witness ==
    \E p, q \in Procs :
        /\ proc[p].pc = "failed" /\ proc[p].httpFail /\ proc[p].op = "details"
        /\ Cardinality(proc[p].live) = 1 /\ Len(proc[p].uncached) = 1
        /\ Len(SummaryReqs(proc[p])) = 1
        /\ proc[q].pc = "failed" /\ proc[q].httpFail /\ proc[q].op = "search"

\* The place of a source in the order of detectOpenAccess.
OaRank(src) == CHOOSE i \in 1..3 : OaSources[i] = src

\* C10: the probes are sent in the order PMC, Unpaywall, Publisher; no probe is
\* sent after a source that confirms; the oaInfo returned names the first
\* source that confirmed among those probed, alone, with its URL, whatever the
\* later sources would have answered, and names none when none confirmed.
C10_FirstConfirmingSourceOnly ==
    LET probes == oa.probes
        hit == {i \in 1..Len(probes) : OaConfirms(oa.world[probes[i]])}
    IN  /\ \A i, j \in 1..Len(probes) : i < j => OaRank(probes[i]) < OaRank(probes[j])
        /\ \A i \in hit : i = Len(probes)
        /\ oa.pc = "done" =>
              IF hit = {}
              THEN /\ ~oa.info.isOpenAccess
                   /\ oa.info.sources = <<>>
                   /\ oa.info.downloadUrl = Null
              ELSE /\ oa.info.isOpenAccess
                   /\ oa.info.sources = <<probes[Len(probes)]>>
                   /\ oa.info.downloadUrl =
                          OaAnswerUrl(probes[Len(probes)], oa.world[probes[Len(probes)]])

\* C10 witness: PMC and Unpaywall would both confirm an article with a pmcid
\* and a doi; the call returned after the PMC probe alone.
C10_Witness ==
    /\ oa.pc = "done"
    /\ oa.article.pmcid # "" /\ oa.article.doi # ""
    /\ oa.world["PMC"] = "confirm" /\ oa.world["Unpaywall"] = "confirm"
    /\ oa.probes = <<"PMC">>
    /\ oa.info.sources = <<"PMC">>

\* C11: in every oaInfo detectOpenAccess returns, downloadUrl is non-null
\* exactly when isOpenAccess is true.
C11_UrlIffOpenAccess ==
    oa.pc = "done" => (oa.info.downloadUrl # Null <=> oa.info.isOpenAccess)

\* The probes detectOpenAccess has to send for an article in a world where a
\* failed probe counts as "not found": each applicable source in order, up to
\* and including the first that confirms.
ExpectedProbes(article, world) ==
    LET hasPmc == article.pmcid # "" \/ "PMC" \in article.publicationTypes
        hasDoi == article.doi # ""
        viaPmc == hasPmc /\ OaConfirms(world["PMC"])
        viaUnpaywall == ~viaPmc /\ hasDoi /\ OaConfirms(world["Unpaywall"])
    IN  (IF hasPmc THEN <<"PMC">> ELSE <<>>)
        \o (IF ~viaPmc /\ hasDoi THEN <<"Unpaywall">> ELSE <<>>)
        \o (IF ~viaPmc /\ ~viaUnpaywall /\ hasDoi THEN <<"Publisher">> ELSE <<>>)

\* C12: a probe that fails counts as "not found" for its source:
\* detectOpenAccess goes on to the next applicable source, so that when it
\* returns it has probed every applicable source up to the first that
\* confirmed, and when none of them confirmed it returns isOpenAccess false,
\* no source and no downloadUrl.
C12_ProbeErrorIsNotFound ==
    oa.pc = "done" =>
        /\ oa.probes = ExpectedProbes(oa.article, oa.world)
        /\ (\A i \in 1..Len(oa.probes) : ~OaConfirms(oa.world[oa.probes[i]])) =>
               /\ ~oa.info.isOpenAccess
               /\ oa.info.sources = <<>>
               /\ oa.info.downloadUrl = Null

\* C12 witness: the PMC probe and the Unpaywall probe both failed, the
\* publisher was still probed and denied, and the call returned "not open".
C12_Witness ==
    /\ oa.pc = "done"
    /\ oa.world["PMC"] = "error" /\ oa.world["Unpaywall"] = "error"
    /\ oa.world["Publisher"] = "deny"
    /\ oa.probes = <<"PMC", "Unpaywall", "Publisher">>
    /\ ~oa.info.isOpenAccess


\* The latest transfer of a call, and the step that ends it.
LastEvent(rec) == rec.events[Len(rec.events)]

TransferEnds(p) ==
    /\ dl[p].events # <<>> /\ ~LastEvent(dl[p]).done
    /\ dl'[p].events # <<>> /\ LastEvent(dl'[p]).done

\* C13: on every download path a document whose advertised Content-Length
\* exceeds MAX_PDF_SIZE ends as a failed download reported as too large,
\* and is not saved.
C13_TooLargeIsAborted ==
    \A p \in Procs : \A k \in 1..Len(dl[p].events) :
        LET e == dl[p].events[k] IN
        e.done /\ e.advertised > MAX_PDF_SIZE =>
            ~e.success /\ e.error = "PDF too large"

\* C14: a download whose tool exits with an error, or after which the file
\* is missing or empty, is reported as failed with a diagnostic, and leaves
\* the ledger as it was; no step of a call other than the end of a
\* successful download changes the ledger.
C14_FailedToolLeavesLedger ==
    /\ [][\A p \in Procs :
             TransferEnds(p) /\ LastEvent(dl'[p]).toolFailed =>
                 /\ ~LastEvent(dl'[p]).success
                 /\ LastEvent(dl'[p]).error # ""
                 /\ dl'[p].op = "single" => ~dl'[p].resp.success
                 /\ ledger' = ledger]_vars
    /\ [][\A p \in Procs :
             dl'[p] # dl[p] /\ ~(TransferEnds(p) /\ LastEvent(dl'[p]).success) =>
                 ledger' = ledger]_vars

\* C14 witness: the tool exited without error and left an empty file; the
\* call reported the failure and there is no record of the identifier.
C14_Witness ==
    \E p \in Procs :
        /\ dl[p].pc = "done" /\ dl[p].op = "single" /\ dl[p].events # <<>>
        /\ LastEvent(dl[p]).toolFailed
        /\ LastEvent(dl[p]).error = "Downloaded file is empty"
        /\ ~dl[p].resp.success
        /\ pdf[dl[p].pmid] # Null /\ ledger[dl[p].pmid] = Null

\* C15: at the moment a download returns success for an identifier, the
\* ledger holds a record for it with the URL, the sources, the relative
\* path, the size of the saved file, which is not empty, and the tool used.
C15_SuccessIsRecorded ==
    [][\A p \in Procs :
          TransferEnds(p) /\ LastEvent(dl'[p]).success =>
              LET pmid == LastEvent(dl'[p]).pmid IN
              /\ ledger'[pmid] # Null
              /\ ledger'[pmid].downloadUrl = DlOaInfo(pmid).downloadUrl
              /\ ledger'[pmid].sources = DlOaInfo(pmid).sources
              /\ ledger'[pmid].filePath = pmid \o ".pdf"
              /\ pdf'[pmid] # Null
              /\ pdf'[pmid].size > 0
              /\ ledger'[pmid].fileSize = pdf'[pmid].size
              /\ "downloadMethod" \in DOMAIN ledger'[pmid]]_vars

\* C16: a call that is not forced never starts a transfer for an identifier
\* whose download succeeded less than PDF_CACHE_EXPIRY ago and whose file is
\* in the store, whatever the entry point.
C16_NoRedundantTransfer ==
    \A p \in Procs : \A k \in 1..Len(dl[p].events) : ~dl[p].events[k].redundant

\* A step of "clean" or "clear" that removes the record of id: no download
\* call moves; "clear" empties the store, "clean" removes a record whose
\* file is older than PDF_CACHE_EXPIRY together with the file.
RemovedByCleanOrClear(id) ==
    /\ ledger'[id] = Null /\ pdf'[id] = Null
    /\ dl' = dl
    /\ \/ \A x \in Pmids : ledger'[x] = Null /\ pdf'[x] = Null
       \/ pdf[id] # Null /\ now - pdf[id].mtime > PDF_CACHE_EXPIRY

\* C17 as stated: a record of the ledger keeps its fields until "clean" or
\* "clear" removes it.
C17_RecordNeverMutated ==
    [][\A id \in Pmids :
          ledger[id] # Null =>
              ledger'[id] = ledger[id] \/ RemovedByCleanOrClear(id)]_vars

\* C17 amended: a record of the ledger keeps its fields until "clean" or
\* "clear" removes it or a later download of the same identifier succeeds,
\* which replaces the record by that of the new download.
C17_RecordReplacedOnlyByDownload ==
    [][\A id \in Pmids :
          ledger[id] # Null =>
              \/ ledger'[id] = ledger[id]
              \/ RemovedByCleanOrClear(id)
              \/ \E p \in Procs :
                    /\ TransferEnds(p)
                    /\ LastEvent(dl'[p]).success /\ LastEvent(dl'[p]).pmid = id
                    /\ ledger'[id] # Null
                    /\ ledger'[id].downloaded = now /\ ledger'[id].cached = now
                    /\ ledger'[id].fileSize = pdf'[id].size]_vars

\* C17 witness: two calls downloaded the same identifier, the second one
\* forced and after the first; the ledger holds the record of the second,
\* whose size differs from the first's.
C17_Witness ==
    \E p, q \in Procs :
        /\ p # q
        /\ dl[p].pc = "done" /\ dl[q].pc = "done"
        /\ dl[p].op = "single" /\ dl[q].op = "single" /\ dl[q].force
        /\ dl[p].pmid = dl[q].pmid
        /\ dl[p].events # <<>> /\ dl[q].events # <<>>
        /\ LastEvent(dl[p]).success /\ LastEvent(dl[q]).success
        /\ LastEvent(dl[p]).end <= LastEvent(dl[q]).start
        /\ dl[p].resp.file_size # dl[q].resp.file_size
        /\ ledger[dl[q].pmid] # Null
        /\ ledger[dl[q].pmid].fileSize = dl[q].resp.file_size

\* Whether the batch call of p has come back from batchDownloadPDFs.
BatchReturned(p) ==
    /\ dl[p].op = "batch" /\ dl[p].pc = "done"
    /\ "successful_downloads" \in DOMAIN dl[p].resp

\* C18: within one batch the downloads run one after the other in list
\* order: item k + 1 starts only after item k has ended and its outcome has
\* been recorded, and at most one download of the batch is in flight.
C18_BatchIsSequential ==
    \A p \in Procs :
        dl[p].op = "batch" =>
            LET ev == dl[p].events IN
            /\ Len(ev) <= Len(dl[p].list)
            /\ \A k \in 1..Len(ev) : ev[k].pmid = dl[p].list[k]
            /\ \A k \in 1..(Len(ev) - 1) : ev[k].done /\ ev[k].end <= ev[k + 1].start
            /\ Cardinality({k \in 1..Len(ev) : ~ev[k].done}) <= 1
            /\ Len(dl[p].results) = Cardinality({k \in 1..Len(ev) : ev[k].done})

\* C18 witness: a batch of two items is over; the second download started
\* after the first had ended.
C18_Witness ==
    \E p \in Procs :
        /\ BatchReturned(p)
        /\ Len(dl[p].events) = 2
        /\ dl[p].events[1].end < dl[p].events[2].start

\* C19: a batch returns one outcome per item of its download list, in list
\* order; every item has been attempted, whatever the outcome of the items
\* before it; successful + failed = available <= total requested.
C19_OneOutcomePerItem ==
    \A p \in Procs :
        BatchReturned(p) =>
            LET res == dl[p].results
                resp == dl[p].resp
            IN  /\ Len(res) = Len(dl[p].list)
                /\ \A k \in 1..Len(res) : res[k].pmid = dl[p].list[k]
                /\ Len(dl[p].events) = Len(dl[p].list)
                /\ \A k \in 1..Len(res) : res[k].result.success = dl[p].events[k].success
                /\ resp.successful_downloads + resp.failed_downloads
                      = resp.available_for_download
                /\ resp.available_for_download = Len(dl[p].list)
                /\ resp.available_for_download <= resp.total_requested
                /\ resp.total_requested = Len(dl[p].pmids)

\* C19 witness: the first item of a batch failed, the second was attempted
\* and succeeded.
C19_Witness ==
    \E p \in Procs :
        /\ BatchReturned(p)
        /\ Len(dl[p].results) = 2
        /\ ~dl[p].results[1].result.success
        /\ dl[p].results[2].result.success
        /\ dl[p].resp.successful_downloads = 1 /\ dl[p].resp.failed_downloads = 1

OpenRequested(rec) ==
    {j \in 1..Len(rec.outcomes) : rec.outcomes[j] = "open"}

\* C21: a batch passes to the download tool only requested identifiers that
\* resolved as open access, the download list holds exactly those, in the
\* order requested, and available_for_download is their number.
C21_OnlyOpenAccessDownloaded ==
    \A p \in Procs :
        dl[p].op = "batch" =>
            LET rec == dl[p] IN
            /\ \A k \in 1..Len(rec.events) :
                  \E j \in OpenRequested(rec) : rec.pmids[j] = rec.events[k].pmid
            /\ rec.pc \notin {"idle", "resolve"} /\ "available_for_download" \in DOMAIN rec.resp
                  => rec.resp.available_for_download = Cardinality(OpenRequested(rec))
            /\ rec.pc \in {"pre", "tool", "inter"} \/ BatchReturned(p) =>
                  /\ Len(rec.list) = Cardinality(OpenRequested(rec))
                  /\ \A k \in 1..Len(rec.list) :
                        \E j \in OpenRequested(rec) :
                            /\ rec.pmids[j] = rec.list[k]
                            /\ Cardinality({i \in OpenRequested(rec) : i <= j}) = k

\* C21 witness: of two requested identifiers the first resolved as not open;
\* the batch is over and only the second was downloaded.
C21_Witness ==
    \E p \in Procs :
        /\ BatchReturned(p)
        /\ dl[p].outcomes = <<"closed", "open">>
        /\ Len(dl[p].events) = 1
        /\ dl[p].events[1].pmid = dl[p].pmids[2]
        /\ dl[p].resp.available_for_download = 1 /\ dl[p].resp.total_requested = 2


\* The calls that came with more identifiers than the tool accepts.
TooManyDetails(p) ==
    proc[p].op \in {"details", "batch_query"} /\ Len(proc[p].ids) > MaxDetails

TooManyBatch(p) == dl[p].op = "batch" /\ Len(dl[p].pmids) > MaxBatchDownload

\* C22: a call of pubmed_get_details or pubmed_batch_query with more than 20
\* identifiers, or of pubmed_batch_download with more than 10, is over at once
\* with a failure that carries a message; it sent no upstream request, probed
\* no source and started no download, and the step that rejected it left the
\* rate limiter, both caches, both ledgers and the files as they were.
C22_CapRejectsBeforeWork ==
    /\ [](\A p \in Procs :
            TooManyDetails(p) =>
                /\ proc[p].pc = "failed" /\ proc[p].err # ""
                /\ CallToolResponse(proc[p]) = [text |-> "Error: " \o proc[p].err]
                /\ proc[p].reqs = <<>> /\ proc[p].end = proc[p].start)
    /\ [](\A p \in Procs :
            TooManyBatch(p) =>
                /\ dl[p].pc = "done"
                /\ dl[p].resp.success = FALSE /\ dl[p].resp.error # ""
                /\ dl[p].outcomes = <<>> /\ dl[p].events = <<>>)
    /\ [][\A p \in Procs :
            \/ proc'[p] # proc[p] /\ TooManyDetails(p)'
            \/ dl'[p] # dl[p] /\ TooManyBatch(p)'
            => UNCHANGED <<lastRequestTime, cache, cacheStats, files, indexPapers, stored,
                           oa, pdf, ledger>>]_vars

\* C22 witness: a pubmed_get_details call and a pubmed_batch_download call
\* with too many identifiers were both rejected.
C22_Witness ==
    \E p, q \in Procs :
        /\ TooManyDetails(p) /\ proc[p].op = "details" /\ proc[p].pc = "failed"
        /\ TooManyBatch(q) /\ dl[q].pc = "done"


\* C23: with full-text mode disabled every call of handleDetectFulltext,
\* handleDownloadFulltext, handleBatchDownload and handleFulltextStatus is over
\* at once with a failure that says the mode is not enabled and names the
\* mode; no identifier is resolved, no transfer starts, and no step changes the
\* rate limiter, the record cache, the source probes, the PDF files or the
\* full-text ledger.
C23_DisabledDoesNothing ==
    /\ [](\A p \in Procs :
            dl[p].pc # "idle" =>
                /\ dl[p].pc = "done"
                /\ dl[p].resp.success = FALSE
                /\ dl[p].resp.error # ""
                /\ dl[p].resp.fulltext_mode = "disabled"
                /\ dl[p].outcomes = <<>> /\ dl[p].events = <<>>)
    /\ [](statusResp # Null =>
            /\ statusResp.success = FALSE /\ statusResp.error # ""
            /\ statusResp.fulltext_mode = "disabled")
    /\ [][UNCHANGED <<lastRequestTime, proc, files, indexPapers, cache, oa, pdf, ledger>>]_vars

\* C23 witness: a detect call, a batch download and a status call were
\* refused while a document of an earlier run is in the store.
C23_Witness ==
    /\ \E p, q \in Procs : dl[p].op = "detect" /\ dl[q].op = "batch" /\ dl[q].pmids # <<>>
    /\ statusResp # Null
    /\ \E id \in Pmids : pdf[id] # Null /\ ledger[id] # Null

\* C24: every tool call that is over has returned a response, and the
\* response of a call that failed is an object with a success flag that is
\* false and a message.
C24_FailureIsStructured ==
    /\ \A p \in Procs :
          proc[p].pc \in {"done", "failed"} =>
              LET r == CallToolResponse(proc[p]) IN
              /\ "success" \in DOMAIN r
              /\ proc[p].pc = "failed" => r.success = FALSE /\ "error" \in DOMAIN r
    /\ \A p \in Procs :
          dl[p].pc = "done" => "success" \in DOMAIN dl[p].resp

\* C25: no fault of the record cache reaches the caller.  A file that cannot
\* be read or parsed counts as a miss and its identifier is asked of the
\* upstream; a call fails only when the upstream answer is not ok or lacks an
\* identifier; and a call whose answer was good returns every article asked
\* for, whether or not the files and the index could be written.
C25_CacheFaultsAreSwallowed ==
    \A p \in Procs :
        proc[p].op = "batch_query" =>
            /\ proc[p].unreadable \subseteq Range(proc[p].uncached)
            /\ proc[p].pc \in {"d_fetch", "done", "failed"} /\ proc[p].unreadable # {}
                  => \E i \in 1..Len(proc[p].reqs) :
                        /\ proc[p].reqs[i].kind = "esummary"
                        /\ proc[p].unreadable \subseteq Range(proc[p].reqs[i].ids)
            /\ proc[p].pc = "failed" => proc[p].httpFail \/ proc[p].unresolved # {}
            /\ proc[p].pc = "done" =>
                  /\ Len(proc[p].result) = Len(proc[p].ids)
                  /\ \A i \in 1..Len(proc[p].ids) :
                        /\ proc[p].result[i] # Null
                        /\ proc[p].result[i].pmid = proc[p].ids[i]

\* C25 witness: a call found a file it could not read, asked the upstream for
\* that identifier, could not write the answer because the disk was full,
\* and returned the article all the same.
C25_Witness ==
    \E p \in Procs :
        /\ proc[p].pc = "done" /\ proc[p].unreadable # {}
        /\ proc[p].writeFault = "disk_full"
        /\ \E id \in proc[p].unreadable : files[id] = CorruptFile

\* C26: in both tiers every identifier the ledger lists has its file on disk:
\* the papers of cache/index.json are among the files of cache/papers, and
\* the fulltext_papers of cache/fulltext/index.json among the PDF files.
C26_LedgerWithinFiles ==
    /\ \A id \in indexPapers : files[id] # Null
    /\ \A id \in Pmids : ledger[id] # Null => pdf[id] # Null

\* The steps of cleanExpiredPaperCache.
CleanRuns == cleanResp'.seq # cleanResp.seq

\* C27: when cleanExpiredPaperCache has run, no entry of the index is without
\* a file or has a file older than PAPER_CACHE_EXPIRY, every listed file that
\* was older is deleted, the entries with a younger file and their files are
\* as before, and the count returned is the number of entries removed.
C27_CleanPostconditions ==
    [][CleanRuns =>
          /\ \A id \in indexPapers' :
                /\ files'[id] # Null
                /\ Readable(files'[id]) => ~PaperExpired(files'[id], now)
          /\ \A id \in indexPapers :
                Readable(files[id]) /\ PaperExpired(files[id], now) => files'[id] = Null
          /\ \A id \in indexPapers :
                Readable(files[id]) /\ ~PaperExpired(files[id], now)
                    => id \in indexPapers' /\ files'[id] = files[id]
          /\ cleanResp'.cleaned = Cardinality(indexPapers \ indexPapers')]_vars

\* The steps in which call p sends a request to the upstream API.
Dispatches(p) == Len(proc'[p].reqs) > Len(proc[p].reqs)

\* C28: a request of any kind (esearch, esummary, efetch) and of any tool goes
\* out only in the step in which the call's enforceRateLimit returns: at once
\* when lastRequestTime is at least RATE_LIMIT_DELAY old, or when the timer it
\* set from lastRequestTime has come due; that step stamps the one
\* lastRequestTime with the time of the request, and a call that has to wait
\* sets its timer from the same lastRequestTime.
C28_RequestsFollowRateLimit ==
    /\ [][\A p \in Procs :
            Dispatches(p) =>
                /\ Len(proc'[p].reqs) = Len(proc[p].reqs) + 1
                /\ proc'[p].reqs[Len(proc'[p].reqs)].at = now
                /\ proc'[p].reqs[Len(proc'[p].reqs)].kind \in {"esearch", "esummary", "efetch"}
                /\ lastRequestTime' = now
                /\ \/ now - lastRequestTime >= RATE_LIMIT_DELAY
                   \/ proc[p].pc \in {"s_wait", "d_wait", "a_wait"} /\ now >= proc[p].wake]_vars
    /\ [][\A p \in Procs :
            proc'[p].pc \in {"s_wait", "d_wait", "a_wait"} /\ proc[p].pc # proc'[p].pc
                => /\ proc'[p].wake = lastRequestTime + RATE_LIMIT_DELAY
                   /\ proc'[p].wake > now
                   /\ UNCHANGED lastRequestTime]_vars
    /\ [](\A p \in Procs : \A i \in 1..Len(proc[p].reqs) : proc[p].reqs[i].at <= lastRequestTime)

\* C28 witness: a search and a pubmed_get_details call with include_full_text
\* have sent an esearch, an esummary and an efetch request, and the efetch
\* request had to wait for its turn.
C28_Witness ==
    \E p, q \in Procs :
        /\ \E i \in 1..Len(proc[p].reqs) : proc[p].reqs[i].kind = "esearch"
        /\ \E i \in 1..Len(proc[q].reqs) : proc[q].reqs[i].kind = "esummary"
        /\ \E i \in 2..Len(proc[q].reqs) :
              /\ proc[q].reqs[i].kind = "efetch"
              /\ proc[q].reqs[i].at >= proc[q].reqs[i - 1].at + RATE_LIMIT_DELAY

\* C29: enforceRateLimit has no failing exit. With the timers fair, every call
\* that is suspended returns; a suspended call's timer is set no later than
\* RATE_LIMIT_DELAY after the call started and the call returns no later than
\* that; and no step decreases lastRequestTime.
C29_RateLimitReturns ==
    /\ \A c \in Callers : (rlPc[c] = "waiting") ~> (rlPc[c] = "done")
    /\ [](\A c \in Callers :
            /\ rlPc[c] \in {"idle", "waiting", "done"}
            /\ rlPc[c] = "waiting" =>
                  /\ rlWake[c] - rlStart[c] <= RATE_LIMIT_DELAY
                  /\ now <= rlWake[c]
            /\ rlPc[c] = "done" =>
                  /\ rlDispatch[c] >= rlStart[c]
                  /\ rlDispatch[c] - rlStart[c] <= RATE_LIMIT_DELAY)
    /\ [][lastRequestTime' >= lastRequestTime]_vars

\* C29 witness: a call that had to wait has returned, some time after it
\* started, and lastRequestTime is the time of its return.
C29_Witness ==
    \E c \in Callers :
        /\ rlPc[c] = "done"
        /\ rlDispatch[c] > rlStart[c]
        /\ rlDispatch[c] = rlWake[c]
        /\ lastRequestTime = rlDispatch[c]

\* C30: a batch asked for with human_like = FALSE sets no delay before an item
\* and none between items, and a batch asked for with human_like = TRUE has set
\* a delay before every item it has started and one between any two of them.
C30_HumanLikeSelectsDelays ==
    \A p \in Procs :
        dl[p].op = "batch" =>
            IF dl[p].human_like
            THEN /\ Len(dl[p].pre) >= Len(dl[p].events)
                 /\ Len(dl[p].inter) >= Len(dl[p].events) - 1
            ELSE dl[p].pre = <<>> /\ dl[p].inter = <<>>

\* C31: an article that has an entry in the export ledger is not exported
\* again: no step writes its RIS/BibTeX files or changes its ledger entry.
C31_NoRepeatedExport ==
    [][\A id \in Pmids :
          endnoteIndex[id] # Null =>
              /\ endnoteFiles'[id] = endnoteFiles[id]
              /\ endnoteIndex'[id] = endnoteIndex[id]]_vars

\* The file of id in the store is what a download that failed left behind:
\* a transfer for id ended when the file was last written, with a tool error
\* or an empty file, and no download of id has succeeded since.
LeftByFailure(id) ==
    /\ pdf[id] # Null
    /\ \E q \in Procs : \E k \in 1..Len(dl[q].events) :
          LET e == dl[q].events[k] IN
          /\ e.pmid = id /\ e.done /\ e.toolFailed /\ e.end = pdf[id].mtime
          /\ \A r \in Procs : \A j \in 1..Len(dl[r].events) :
                LET f == dl[r].events[j] IN
                f.pmid = id /\ f.done /\ f.success => f.end < e.end

\* C32: a failed download can be tried again: when the download of an
\* identifier has failed, a pubmed_download_fulltext call for it without
\* force_download does not answer "already cached" but goes on to retrieve
\* the document.
C32_FailedIsRetried ==
    [][\A p \in Procs, id \in Pmids :
          /\ dlRuns' = dlRuns + 1 /\ dl'[p] # dl[p]
          /\ dl'[p].op = "single" /\ dl'[p].pmid = id /\ ~dl'[p].force
          /\ LeftByFailure(id)
          => dl'[p].pc = "resolve"]_vars

\* Two calls whose downloads were in progress at the same time.
Overlap(p, q) ==
    /\ p # q /\ dl[p].events # <<>> /\ dl[q].events # <<>>
    /\ LastEvent(dl[p]).done /\ LastEvent(dl[q]).done
    /\ LastEvent(dl[p]).success /\ LastEvent(dl[q]).success
    /\ LastEvent(dl[p]).pmid # LastEvent(dl[q]).pmid
    /\ LastEvent(dl[p]).start < LastEvent(dl[q]).end
    /\ LastEvent(dl[q]).start < LastEvent(dl[p]).end

Retrieving(p) ==
    IF dl[p].pc \in {"tool", "http", "body"} /\ dl[p].events # <<>> /\ ~LastEvent(dl[p]).done
    THEN [pmid |-> LastEvent(dl[p]).pmid] ELSE Null

\* C34: for one identifier at most one retrieval is in flight: no two calls
\* are retrieving the same identifier, and so writing the same
\* cache/fulltext/<id>.pdf, at the same time.
C34_OneRetrievalPerIdentifier ==
    \A p, q \in Procs :
        p # q /\ Retrieving(p) # Null => Retrieving(q) # Retrieving(p)

\* The steps of pubmed_fulltext_status with action "clean" in full-text mode.
FulltextCleanRuns ==
    /\ statusResp' = [success |-> TRUE, action |-> "clean"]
    /\ UNCHANGED <<dl, now>>

\* C35: after the "clean" action every record of the full-text ledger has its
\* PDF file in the store, and the file is no older than PDF_CACHE_EXPIRY.
C35_CleanHealsLedger ==
    [][FulltextCleanRuns =>
          \A id \in Pmids :
              ledger'[id] # Null =>
                  pdf'[id] # Null /\ now - pdf'[id].mtime <= PDF_CACHE_EXPIRY]_vars

\* C36: the memory cache never holds more than maxCacheSize entries, and no
\* two of its entries have the same key.
C36_CacheBoundedAndUnique ==
    /\ Len(cache) <= maxCacheSize
    /\ \A i, j \in 1..Len(cache) : cache[i].key = cache[j].key => i = j

\* C36 witness: the cache is full after a setCache that had to evict.
C36_Witness ==
    /\ Len(cache) = maxCacheSize
    /\ cacheStats.evictions > 0
    /\ cacheOp.name = "set"

\* C37: setCache of a key that is in the Map replaces the key's value and
\* timestamp and removes no other key, whatever the size of the Map.
C37_SetOfPresentKeyKeepsOthers ==
    [][ops' = ops + 1 /\ cacheOp'.name = "set" /\ MapHas(cache, cacheOp'.key) =>
          /\ MapKeys(cache') = MapKeys(cache)
          /\ cache'[MapIndex(cache', cacheOp'.key)].timestamp = now]_vars


\* The identifiers with a record in the full-text ledger, and the sum of
\* their sizes.
LedgerEntries == {id \in Pmids : ledger[id] # Null}

RECURSIVE EntriesSize(_)
EntriesSize(S) ==
    IF S = {} THEN 0
    ELSE LET id == CHOOSE x \in S : TRUE IN ledger[id].fileSize + EntriesSize(S \ {id})

\* C38: in every state (so after every operation that writes a ledger) the
\* counters agree with the entries: totalPapers is the number of entries of
\* papers, totalPDFs the number of entries of fulltext_papers, and totalSize
\* the sum of their fileSize values.
C38_CountersAgreeWithEntries ==
    /\ totalPapers = Cardinality(indexPapers)
    /\ fulltextStats.totalPDFs = Cardinality(LedgerEntries)
    /\ fulltextStats.totalSize = EntriesSize(LedgerEntries)

\* Both ledgers have been written and hold entries: a batch query stored two
\* records on an installation that had none, and a document was downloaded.
C38_Witness ==
    /\ \E p \in Procs : proc[p].op = "batch_query" /\ proc[p].pc = "done"
    /\ \A id \in Pmids : stored[id] # Null
    /\ totalPapers = NumPmids
    /\ \E p \in Procs : dl[p].pc = "done" /\ dl[p].resp.success
    /\ Cardinality(LedgerEntries) = 1
    /\ fulltextStats.totalSize >= MAX_PDF_SIZE

==============================================================================================
